---- MODULE Spec2Model ----
(***************************************************************************)
(* Verification model of the query execution engines of MDLH_Dictionary.   *)
(*                                                                         *)
(*  - SnowflakeService (backend/app/services/snowflake.py): a result store *)
(*    guarded by _results_lock, execute_query run by concurrent threads,   *)
(*    cancel_query and the eviction run _cleanup_old_results.              *)
(*  - the /api/query router (backend/app/routers/query.py): execute,       *)
(*    status, results and cancel over session.query_results.               *)
(*                                                                         *)
(* Every region of code that holds _results_lock is one atomic step; the   *)
(* warehouse calls between two such regions touch no shared state and are  *)
(* folded into one step.  The router handlers are `async def` bodies       *)
(* without an await, so each of them is one atomic step.                   *)
(***************************************************************************)
EXTENDS Integers, Sequences, FiniteSets, TLC

\* None of Python, per type of the field that holds it
None == "None"
NoTime == -1
NoCount == -1
NoMsg == <<>>
NoData == [scope |-> "", args |-> <<>>, set_at |-> NoTime, list |-> <<>>, database |-> ""]

\* ------------------------------------------------------------------ bounds
\* number of query ids uuid4 hands out in one behaviour
MaxQueries == 3
\* the clock runs from 0 to MaxTime; one unit is one hour
MaxTime == 2
\* largest result set the warehouse returns
MaxRows == 2
\* stands for MAX_QUERY_RESULTS = 100 of snowflake.py:17, scaled down so
\* that the store can exceed it within MaxQueries executions
MAX_QUERY_RESULTS == 1
\* number of query ids uuid4 hands out to the router in one behaviour
MaxRouterQueries == 2
\* largest number of statements in a script
MaxStatements == 3
\* largest page size a client asks for, and largest result it pages through
MaxPageSize == 3
MaxPageRows == 4

\* ------------------------------------------------------- program constants
RESULT_TTL_HOURS == 1
DEFAULT_ROW_LIMIT == 10000

Threads == {"t1", "t2"}
QIds == 1..MaxQueries
RouterQIds == 1..MaxRouterQueries

RUNNING == "RUNNING"
SUCCESS == "SUCCESS"
FAILED == "FAILED"
CANCELLED == "CANCELLED"
PENDING == "PENDING"
QueryStatus == {PENDING, RUNNING, SUCCESS, FAILED, CANCELLED}
Terminal == {SUCCESS, FAILED, CANCELLED}

\* texts of the errors the warehouse driver raises
Errors == {"E1"}

\* ------------------------------------------------------------ identifiers
\* An identifier is a sequence of one-character strings.
UpperOf(c) ==
    CASE c = "a" -> "A" [] c = "b" -> "B" [] c = "d" -> "D" [] c = "r" -> "R"
      [] c = "o" -> "O" [] c = "p" -> "P" [] c = "w" -> "W" [] c = "h" -> "H"
      [] OTHER -> c

Upper(s) == [i \in 1..Len(s) |-> UpperOf(s[i])]

Letters == {"A", "B", "D", "R", "O", "P", "W", "H", "S", "C",
            "a", "b", "d", "r", "o", "p", "w", "h"}
Digits == {"0", "1"}

\* `p in s` of Python for sequences of characters
Contains(s, p) ==
    \E i \in 0..(Len(s) - Len(p)) : \A j \in 1..Len(p) : s[i + j] = p[j]

\* a deny list of the statement terminator and the comment marks only
syntax_patterns ==
    { <<";">>, <<"-", "-">>, <<"/", "*">>, <<"*", "/">> }

dangerous_patterns ==
    { <<";">>, <<"-", "-">>, <<"/", "*">>, <<"*", "/">>,
      <<"D", "R", "O", "P">>, <<"D", "E", "L", "E", "T", "E">>,
      <<"I", "N", "S", "E", "R", "T">>, <<"U", "P", "D", "A", "T", "E">>,
      <<"T", "R", "U", "N", "C", "A", "T", "E">> }

\* re.match(r'^[A-Za-z_][A-Za-z0-9_$]*$', part); `$` also matches before a
\* final newline
MatchesPart(part) ==
    LET body == IF Len(part) > 0 /\ part[Len(part)] = "\n"
                THEN SubSeq(part, 1, Len(part) - 1) ELSE part
    IN  /\ Len(body) >= 1
        /\ body[1] \in Letters \cup {"_"}
        /\ \A i \in 2..Len(body) : body[i] \in Letters \cup Digits \cup {"_", "$"}

\* the dot-separated parts of name, as pairs <<first, last>> of positions
PartBounds(name) ==
    LET dots == {i \in 1..Len(name) : name[i] = "."}
        starts == {1} \cup {i + 1 : i \in dots}
        EndOf(s) == IF \E d \in dots : d >= s
                    THEN (CHOOSE d \in dots : d >= s /\ \A e \in dots : e >= s => d <= e) - 1
                    ELSE Len(name)
    IN  {<<s, EndOf(s)>> : s \in starts}

\* TRUE when _validate_identifier returns, FALSE when it raises ValueError
validate_identifier_ok(name) ==
    /\ Len(name) > 0
    /\ \A p \in dangerous_patterns : ~Contains(Upper(name), p)
    /\ \A b \in PartBounds(name) : MatchesPart(SubSeq(name, b[1], b[2]))

\* An optional identifier of a request; None and "" are both falsy in
\* `if warehouse:` and both are written NoName
NoName == <<>>
GoodName == <<"W", "H">>
BadName == <<"a", ";", "b">>
IdentInputs == {NoName, GoodName, BadName}

\* `if warehouse:` / `if database:` / `if schema:`
Given(name) == Len(name) > 0

\* ------------------------------------------------------- warehouse results
\* The result set of statement i with n rows; a statement without a result
\* descriptor (cursor.description is None) has no columns and no rows.
RowsOf(i, n) == [k \in 1..n |-> <<i, k>>]
ResultSet(i, d, n) ==
    [desc |-> d,
     cols |-> IF d THEN <<i>> ELSE <<>>,
     rows |-> IF d THEN RowsOf(i, n) ELSE <<>>]
ResultSetsOf(i) ==
    {ResultSet(i, TRUE, n) : n \in 0..MaxRows} \cup {ResultSet(i, FALSE, 0)}
NoResultSet == ResultSet(0, FALSE, 0)

\* seq[:n] of Python for n >= 0
Take(seq, n) == SubSeq(seq, 1, IF n < Len(seq) THEN n ELSE Len(seq))

\* ------------------------------------------------------------- SQL scanner
\* SQL text is a sequence of one-character strings; "a" stands for any
\* character that is no quote, semicolon, comment character or whitespace.
Whitespace == {" ", "\n", "\t"}

Min(S) == CHOOSE x \in S : \A y \in S : x <= y

\* str.strip()
RECURSIVE LStrip(_)
LStrip(s) == IF Len(s) > 0 /\ s[1] \in Whitespace THEN LStrip(Tail(s)) ELSE s
RECURSIVE RStrip(_)
RStrip(s) ==
    IF Len(s) > 0 /\ s[Len(s)] \in Whitespace THEN RStrip(SubSeq(s, 1, Len(s) - 1)) ELSE s
Strip(s) == RStrip(LStrip(s))

\* re.sub(r'/\*.*?\*/', '', sql, flags=re.DOTALL)
RECURSIVE RemoveBlockComments(_)
RemoveBlockComments(s) ==
    LET Closes(i) == {j \in (i + 2)..(Len(s) - 1) : s[j] = "*" /\ s[j + 1] = "/"}
        opens == {i \in 1..(Len(s) - 1) : s[i] = "/" /\ s[i + 1] = "*" /\ Closes(i) # {}}
    IN  IF opens = {} THEN s
        ELSE LET i == Min(opens)
                 j == Min(Closes(i))
             IN  SubSeq(s, 1, i - 1) \o RemoveBlockComments(SubSeq(s, j + 2, Len(s)))

\* re.sub(r'--.*?$', '', sql, flags=re.MULTILINE)
RECURSIVE RemoveLineComments(_)
RemoveLineComments(s) ==
    LET opens == {i \in 1..(Len(s) - 1) : s[i] = "-" /\ s[i + 1] = "-"}
    IN  IF opens = {} THEN s
        ELSE LET i == Min(opens)
                 ends == {j \in (i + 2)..Len(s) : s[j] = "\n"}
                 j == IF ends = {} THEN Len(s) + 1 ELSE Min(ends)
             IN  SubSeq(s, 1, i - 1) \o RemoveLineComments(SubSeq(s, j, Len(s)))

\* a statement that is kept as it was scanned
AppendUnstripped(statements, current) ==
    IF Strip(current) # <<>> THEN Append(statements, current) ELSE statements

\* lines 58-60 and 66-68: stmt = ''.join(current).strip(), kept if not empty
AppendStmt(statements, current) ==
    IF Strip(current) # <<>> THEN Append(statements, Strip(current)) ELSE statements

\* the character loop of _split_sql_statements (lines 43-68); string_char
\* is "" for None
RECURSIVE ScanStatements(_, _, _, _, _)
ScanStatements(s, i, string_char, current, statements) ==
    IF i > Len(s) THEN AppendStmt(statements, current)
    ELSE LET c == s[i] IN
         IF c \in {"'", "\""} /\ string_char = ""
         THEN ScanStatements(s, i + 1, c, Append(current, c), statements)
         ELSE IF c = string_char /\ string_char # ""
         THEN ScanStatements(s, i + 1, "", Append(current, c), statements)
         ELSE IF c = ";" /\ string_char = ""
         THEN ScanStatements(s, i + 1, string_char, <<>>, AppendStmt(statements, current))
         ELSE ScanStatements(s, i + 1, string_char, Append(current, c), statements)

split_sql_statements(sql) ==
    ScanStatements(RemoveLineComments(RemoveBlockComments(sql)), 1, "", <<>>, <<>>)

count_statements(sql) == Len(split_sql_statements(sql))

\* ------------------------------------------------------------------- state
VARIABLES
    query_results,   \* SnowflakeService._query_results: query id -> result dict
    connection,      \* SnowflakeService._connection is set
    next_qid,        \* the next id uuid.uuid4() hands out
    now,             \* datetime.utcnow(), in hours
    pc,              \* per thread: position inside execute_query
    cur,             \* per thread: locals of execute_query
    cancel_ret,      \* what the last cancel_query call returned
    session_state,   \* session manager: per handle "unused", "live" or "closed"
    session_results, \* per handle: session.query_results of the router
    router_next_qid, \* the next id uuid.uuid4() hands out in the router
    history,         \* query_history_db: the records added, in order
    wh_executes,     \* number of cursor.execute calls the router has made
    last_request,    \* the last request the router has handled
    resp,            \* the response to it
    reader,          \* a client reading the pages of one result in order
    service_ret,     \* what the last read call of SnowflakeService returned
    sessions,        \* session manager: handle -> session
    released,        \* per handle: how often its connection was closed
    session_ret,     \* the last answer of a session endpoint
    cache,           \* MetadataCache: per category, key -> entry
    cache_time,      \* the timer of the TTLCaches, in seconds
    cache_ret,       \* the last call of MetadataCache and what it returned
    identities,      \* the identities of two sessions and their cache scopes
    meta_ret,        \* the last call of a metadata endpoint and its response
    result_cache,    \* QueryResultCache: the entries and the hit and miss counters
    result_ret,      \* the last call of QueryResultCache and what it returned
    preflight_ret,   \* the last preflight check and its response
    call             \* a SQL text and what the helpers of the query router made of it

svars == <<query_results, connection, next_qid, now, pc, cur, cancel_ret>>
rvars == <<session_state, session_results, router_next_qid, history, wh_executes,
           last_request, resp, reader>>

\* the state of the session manager, of the metadata cache and of the cache
\* scopes, which SnowflakeService and the query router do not touch
mvars == <<sessions, released, session_ret>>
cvars == <<cache, cache_time, cache_ret>>
yvars == <<meta_ret, result_cache, result_ret, preflight_ret, call>>
xvars == <<service_ret, mvars, cvars, identities, yvars>>

vars == <<svars, rvars, xvars>>

\* --------------------------------------------------------- SnowflakeService
\* the fields of the dict that are written once and never read by the engine
\* (sql, database, schema, warehouse, started_at) are left out
NewResult ==
    [status |-> RUNNING, completed_at |-> NoTime,
     row_count |-> NoCount, columns |-> <<>>, rows |-> <<>>,
     error_message |-> NoMsg, snowflake_query_id |-> None]

Restrict(f, S) == [x \in S |-> f[x]]

DatetimeMin == -2

\* a sort that puts the newest completion first
NewestFirst(qr, a, b) ==
    LET ka == IF qr[a].completed_at = NoTime THEN DatetimeMin ELSE qr[a].completed_at
        kb == IF qr[b].completed_at = NoTime THEN DatetimeMin ELSE qr[b].completed_at
    IN  ka > kb \/ (ka = kb /\ a < b)

\* position of q in completed_queries after the stable sort by completed_at
\* (dict order is insertion order, which is the order of the ids)
SortKeyBefore(qr, a, b) ==
    LET ka == IF qr[a].completed_at = NoTime THEN DatetimeMin ELSE qr[a].completed_at
        kb == IF qr[b].completed_at = NoTime THEN DatetimeMin ELSE qr[b].completed_at
    IN  ka < kb \/ (ka = kb /\ a < b)

cleanup_old_results(qr, t) ==
    IF Cardinality(DOMAIN qr) <= MAX_QUERY_RESULTS THEN qr
    ELSE
      LET cutoff == t - RESULT_TTL_HOURS
          to_remove == {q \in DOMAIN qr :
                          qr[q].completed_at # NoTime /\ qr[q].completed_at < cutoff}
          qr1 == Restrict(qr, DOMAIN qr \ to_remove)
      IN  IF Cardinality(DOMAIN qr1) > MAX_QUERY_RESULTS
          THEN LET completed == {q \in DOMAIN qr1 : qr1[q].status # RUNNING}
                   k == Cardinality(DOMAIN qr1) - MAX_QUERY_RESULTS
                   victims == {q \in completed :
                       Cardinality({p \in completed : SortKeyBefore(qr1, p, q)}) < k}
               IN  Restrict(qr1, DOMAIN qr1 \ victims)
          ELSE qr1

\* the SQL texts given to SnowflakeService.execute_query
ServiceSqls == {<<" ">>, <<"a">>}

\* limit 0 stands for None and 0, which `limit or 10000` treats alike
Requests ==
    [sql : ServiceSqls, warehouse : IdentInputs, database : IdentInputs,
     schema : IdentInputs, limit : {0, 1}]

NoReq == [sql |-> <<"a">>, warehouse |-> NoName, database |-> NoName, schema |-> NoName,
          limit |-> 0]

\* session handles, and the X-Session-ID headers a request can carry: no
\* header, a handle, or a string that is no handle
Handles == {"s1", "s2"}
Headers == Handles \cup {None, "unknown"}

\* a request: the endpoint, the X-Session-ID header, the SQL text and the row
\* limit of the body, and what the warehouse does with it: the call that
\* fails and the result sets of the statements
NoRequest == [op |-> "none", hdr |-> None, qid |-> 0, sql |-> <<>>, limit |-> 0,
              fail |-> "none", rss |-> <<>>]

NoResp == [op |-> "none", code |-> 0, qid |-> 0, status |-> None, row_count |-> NoCount,
           message |-> NoMsg, columns |-> <<>>, rows |-> <<>>, total_rows |-> 0,
           page |-> 0, page_size |-> 0, has_more |-> FALSE]

NoReader == [handle |-> None, qid |-> 0, page_size |-> 0, next |-> 0, acc |-> <<>>,
             has_more |-> FALSE, total_rows |-> 0]

\* a read call of SnowflakeService: the method, the query id and the page
\* asked for, whether it returned None, and the dict it returned otherwise
NoServiceRet == [op |-> "none", qid |-> 0, page |-> 0, page_size |-> 0, none |-> TRUE,
                 status |-> None, error_message |-> NoMsg, rows |-> <<>>,
                 total_rows |-> 0, has_more |-> FALSE]

\* a session of the session manager; a handle is unused until create hands
\* it out, and is never handed out again
NoSession == [state |-> "unused", created_at |-> NoTime, last_used |-> NoTime]
NoSessions == [h \in Handles |-> NoSession]
NoneReleased == [h \in Handles |-> 0]

\* the last call of a session endpoint: the endpoint, its X-Session-ID header
\* and the valid / disconnected flag of its answer; with it the session
\* table and the release counts as they were when the call began, and how
\* long the session had been idle then
NoSessionRet == [op |-> "none", hdr |-> None, valid |-> FALSE, idle |-> NoTime,
                 before |-> NoSessions, released_before |-> NoneReleased]

\* the five TTLCaches of MetadataCache
Categories == {"databases", "schemas", "tables", "columns", "capabilities"}

NoCache == [c \in Categories |-> <<>>]

\* the last call of MetadataCache: the method, its category, scope and
\* arguments, whether a get found a value and the value, and the time of
\* the call
NoCacheRet == [op |-> "none", category |-> None, scope |-> "", args |-> <<>>,
               hit |-> FALSE, data |-> NoData, at |-> 0]

\* the last call of a metadata endpoint: the endpoint, the header, whether
\* the session was found and its cache scope, the arguments and the refresh
\* flag; whether the cache was read and the warehouse queried, the error the
\* warehouse raised, the HTTP status, the list of the body (of a capabilities
\* payload its tables) and the database the payload names
NoMetaRet == [op |-> "none", hdr |-> None, found |-> FALSE, scope |-> "", args |-> <<>>,
              refresh |-> FALSE, consulted |-> FALSE, queried |-> FALSE, error |-> None,
              status |-> 0, body |-> <<>>, database |-> ""]

\* a miss of QueryResultCache.get
NoResult == [rows |-> <<>>, size |-> 0, cached |-> FALSE]

\* QueryResultCache after construction (cache.py lines 31-35)
NoResultCache == [entries |-> <<>>, hits |-> 0, misses |-> 0]

\* the last call of QueryResultCache: the method, its arguments, and what a
\* get returned
NoResultRet == [op |-> "none", sql |-> <<>>, database |-> None, schema |-> None,
                result |-> NoResult, hit |-> FALSE]

\* the last preflight check: the SQL text, the tables it checked and the
\* response
NoPreflight == [op |-> "none", sql |-> <<>>, status |-> 0, valid |-> FALSE, tables |-> <<>>,
                checks |-> <<>>, issues |-> <<>>, replacements |-> <<>>,
                suggested_query |-> <<>>]

\* a SQL text no helper has been applied to
\* name, raised and text belong to a call of an identifier function
NoCall == [fn |-> "none", sql |-> <<>>, statements |-> <<>>, tables |-> <<>>,
           name |-> <<>>, raised |-> FALSE, text |-> <<>>]

\* the identity of a session, each field a string of characters
NoIdentity == [account |-> <<>>, user |-> <<>>, role |-> <<>>, warehouse |-> <<>>]

\* two sessions and the cache scopes computed for them, <<>> before that
NoIdentities == [first |-> NoIdentity, second |-> NoIdentity, scopes |-> <<>>]

\* err is str(e) of the exception caught at line 588, wh_err the text of the
\* error the warehouse driver raised ("" when it raised none), calls the
\* statements sent to the warehouse
Idle == [qid |-> 0, req |-> NoReq, err |-> NoMsg, wh_err |-> "", calls |-> {},
         rs |-> NoResultSet]

\* a thread is outside execute_query: it never called it, or its last call
\* returned a query id, or its last call raised
Outside == {"idle", "returned", "raised"}

\* the state after construction, the session identities left open
BaseInit ==
    /\ query_results = <<>>
    /\ connection = FALSE
    /\ next_qid = 1
    /\ now = 0
    /\ pc = [t \in Threads |-> "idle"]
    /\ cur = [t \in Threads |-> Idle]
    /\ cancel_ret = "none"
    /\ session_state = [h \in Handles |-> "unused"]
    /\ session_results = [h \in Handles |-> <<>>]
    /\ router_next_qid = 1
    /\ history = <<>>
    /\ wh_executes = 0
    /\ last_request = NoRequest
    /\ resp = NoResp
    /\ reader = NoReader
    /\ service_ret = NoServiceRet
    /\ sessions = NoSessions
    /\ released = NoneReleased
    /\ session_ret = NoSessionRet
    /\ cache = NoCache
    /\ cache_time = 0
    /\ cache_ret = NoCacheRet
    /\ meta_ret = NoMetaRet
    /\ result_cache = NoResultCache
    /\ result_ret = NoResultRet
    /\ preflight_ret = NoPreflight

Init == BaseInit /\ identities = NoIdentities /\ call = NoCall

\* dict.update of the entry of q; the caller has checked q \in DOMAIN qr
UpdateStatus(qr, q, st, t, msg) ==
    [qr EXCEPT ![q].status = st, ![q].completed_at = t, ![q].error_message = msg]

\* str(KeyError(query_id))
KeyErrorMsg(q) == <<"KeyError", q>>

\* lines 496-497: execute_query is entered and runs _cleanup_old_results
ExecuteBegin(t, req) ==
    /\ UNCHANGED <<rvars, xvars>>
    /\ pc[t] \in Outside
    /\ next_qid + Cardinality({u \in Threads : pc[u] = "store"}) <= MaxQueries
    /\ query_results' = cleanup_old_results(query_results, now)
    /\ pc' = [pc EXCEPT ![t] = "store"]
    /\ cur' = [cur EXCEPT ![t] = [Idle EXCEPT !.req = req]]
    /\ UNCHANGED <<connection, next_qid, now, cancel_ret>>

\* lines 499-516: a fresh id, and the RUNNING entry stored under the lock
ExecuteStore(t) ==
    /\ UNCHANGED <<rvars, xvars>>
    /\ pc[t] = "store"
    /\ query_results' =
         [q \in DOMAIN query_results \cup {next_qid} |->
            IF q = next_qid THEN NewResult ELSE query_results[q]]
    /\ cur' = [cur EXCEPT ![t].qid = next_qid]
    /\ next_qid' = next_qid + 1
    /\ pc' = [pc EXCEPT ![t] = "conn"]
    /\ UNCHANGED <<connection, now, cancel_ret>>

NoConnectionMsg == <<"No active Snowflake connection. Please connect first.">>

\* lines 518-526: without a connection the entry becomes FAILED and the
\* call returns; the subscript raises KeyError when the entry is gone
ExecuteCheckConnection(t) ==
    /\ UNCHANGED <<rvars, xvars>>
    /\ pc[t] = "conn"
    /\ LET q == cur[t].qid IN
       IF connection
       THEN /\ pc' = [pc EXCEPT ![t] = "run"]
            /\ UNCHANGED <<query_results, cur>>
       ELSE IF q \in DOMAIN query_results
       THEN /\ query_results' = UpdateStatus(query_results, q, FAILED, now, NoConnectionMsg)
            /\ pc' = [pc EXCEPT ![t] = "return"]
            /\ UNCHANGED cur
       ELSE /\ pc' = [pc EXCEPT ![t] = "raised"]
            /\ cur' = [cur EXCEPT ![t] = Idle]
            /\ UNCHANGED query_results
    /\ UNCHANGED <<connection, next_qid, now, cancel_ret>>

\* what get_cursor does with a connection (lines 184-206)
CursorOutcomes == {"ok", "type_error", "exception", "none"}

CursorErr(outcome, e) ==
    CASE outcome = "type_error" -> <<"Connection lost. Please reconnect. Error: ", e>>
      [] outcome = "exception" -> <<"Failed to create cursor: ", e>>
      [] outcome = "none" ->
           <<"Failed to create cursor: ", "Failed to create cursor - connection may be closed">>
      [] OTHER -> NoMsg

NoCursorMsg ==
    <<"No active Snowflake connection. Please connect first using the Configure Connection button.">>

InvalidIdentifierMsg(name) == <<"Invalid identifier", name>>

\* lines 532-540, one of the three blocks: validate the name, then USE it
UseStep(prev, name, stmt, fails, e) ==
    IF prev.err # NoMsg \/ ~Given(name) THEN prev
    ELSE IF ~validate_identifier_ok(name)
    THEN [prev EXCEPT !.err = InvalidIdentifierMsg(name)]
    ELSE IF fails THEN [calls |-> prev.calls \cup {stmt}, err |-> <<e>>, wh_err |-> e]
    ELSE [prev EXCEPT !.calls = prev.calls \cup {stmt}]

\* lines 532-543: the warehouse statements execute_query issues on a cursor,
\* the one of failAt raising the warehouse error e
RunStatements(req, failAt, e) ==
    LET s0 == [calls |-> {}, err |-> NoMsg, wh_err |-> ""]
        s1 == UseStep(s0, req.warehouse, "USE WAREHOUSE", failAt = "warehouse", e)
        s2 == UseStep(s1, req.database, "USE DATABASE", failAt = "database", e)
        s3 == UseStep(s2, req.schema, "USE SCHEMA", failAt = "schema", e)
    IN  IF s3.err # NoMsg THEN s3
        ELSE IF failAt = "sql"
        THEN [calls |-> s3.calls \cup {"SQL"}, err |-> <<e>>, wh_err |-> e]
        ELSE [s3 EXCEPT !.calls = s3.calls \cup {"SQL"}]

FailPoints == {"none", "warehouse", "database", "schema", "sql"}

\* lines 528-543: get_cursor, the context switches and the user SQL; co is
\* what cursor creation does, failAt the warehouse statement that fails with
\* error e (if it is reached), rs the result set of the user SQL
ExecuteRun(t, co, failAt, e, rs) ==
    /\ UNCHANGED <<rvars, xvars>>
    /\ pc[t] = "run"
    /\ IF ~connection
       THEN /\ cur' = [cur EXCEPT ![t].err = NoCursorMsg]
            /\ pc' = [pc EXCEPT ![t] = "except"]
            /\ UNCHANGED connection
       ELSE IF co # "ok"
       THEN /\ cur' = [cur EXCEPT ![t].err = CursorErr(co, e),
                                   ![t].wh_err = IF co = "none" THEN "" ELSE e]
            /\ pc' = [pc EXCEPT ![t] = "except"]
            /\ connection' = IF co = "type_error" THEN FALSE ELSE connection
       ELSE LET out == RunStatements(cur[t].req, failAt, e) IN
            /\ UNCHANGED connection
            /\ IF out.err # NoMsg
               THEN /\ cur' = [cur EXCEPT ![t].err = out.err, ![t].wh_err = out.wh_err,
                                           ![t].calls = out.calls]
                    /\ pc' = [pc EXCEPT ![t] = "except"]
               ELSE /\ cur' = [cur EXCEPT ![t].calls = out.calls, ![t].rs = rs]
                    /\ pc' = [pc EXCEPT ![t] = "sfqid"]
    /\ UNCHANGED <<query_results, next_qid, now, cancel_ret>>

\* lines 545-548: cursor.sfqid stored under the lock
ExecuteStoreSfqid(t) ==
    /\ UNCHANGED <<rvars, xvars>>
    /\ pc[t] = "sfqid"
    /\ LET q == cur[t].qid IN
       IF q \in DOMAIN query_results
       THEN /\ query_results' = [query_results EXCEPT ![q].snowflake_query_id = "sfqid"]
            /\ pc' = [pc EXCEPT ![t] = "success"]
            /\ UNCHANGED cur
       ELSE /\ cur' = [cur EXCEPT ![t].err = KeyErrorMsg(q)]
            /\ pc' = [pc EXCEPT ![t] = "except"]
            /\ UNCHANGED query_results
    /\ UNCHANGED <<connection, next_qid, now, cancel_ret>>

\* line 559: limit or 10000
EffectiveLimit(limit) == IF limit = 0 THEN DEFAULT_ROW_LIMIT ELSE limit

\* lines 550-586: columns, fetchmany(effective_limit), and the SUCCESS update
ExecuteSuccess(t) ==
    /\ UNCHANGED <<rvars, xvars>>
    /\ pc[t] = "success"
    /\ LET q == cur[t].qid
           rows == Take(cur[t].rs.rows, EffectiveLimit(cur[t].req.limit))
       IN
       IF q \in DOMAIN query_results
       THEN /\ query_results' =
                 [query_results EXCEPT ![q].status = SUCCESS,
                                       ![q].completed_at = now,
                                       ![q].row_count = Len(rows),
                                       ![q].columns = cur[t].rs.cols,
                                       ![q].rows = rows]
            /\ pc' = [pc EXCEPT ![t] = "return"]
            /\ UNCHANGED cur
       ELSE /\ cur' = [cur EXCEPT ![t].err = KeyErrorMsg(q)]
            /\ pc' = [pc EXCEPT ![t] = "except"]
            /\ UNCHANGED query_results
    /\ UNCHANGED <<connection, next_qid, now, cancel_ret>>

\* lines 588-594: the except branch; its own subscript raises KeyError out
\* of execute_query when the entry is gone
ExecuteExcept(t) ==
    /\ UNCHANGED <<rvars, xvars>>
    /\ pc[t] = "except"
    /\ LET q == cur[t].qid IN
       IF q \in DOMAIN query_results
       THEN /\ query_results' = UpdateStatus(query_results, q, FAILED, now, cur[t].err)
            /\ pc' = [pc EXCEPT ![t] = "return"]
            /\ UNCHANGED cur
       ELSE /\ pc' = [pc EXCEPT ![t] = "raised"]
            /\ cur' = [cur EXCEPT ![t] = Idle]
            /\ UNCHANGED query_results
    /\ UNCHANGED <<connection, next_qid, now, cancel_ret>>

\* lines 526 and 596: return query_id
ExecuteReturn(t) ==
    /\ UNCHANGED <<rvars, xvars>>
    /\ pc[t] = "return"
    /\ pc' = [pc EXCEPT ![t] = "returned"]
    /\ cur' = [cur EXCEPT ![t] = Idle]
    /\ UNCHANGED <<query_results, connection, next_qid, now, cancel_ret>>

\* what the remote SYSTEM$CANCEL_QUERY attempt of cancel_query does
RemoteOutcomes == {"ok", "failed", "type_error"}

\* a guard that lets every query that is not yet CANCELLED be cancelled
NotYetCancelled(result) == result.status # CANCELLED

\* line 651: only a RUNNING query passes the status check of cancel_query
Cancellable(result) == result.status = RUNNING

\* a cancel that gives up when the remote cancel was attempted and failed
cancel_unless_remote_fails(q, ro) ==
    /\ UNCHANGED <<rvars, xvars>>
    /\ UNCHANGED <<next_qid, now, pc, cur>>
    /\ IF q \notin DOMAIN query_results
       THEN /\ cancel_ret' = "Query not found"
            /\ UNCHANGED <<query_results, connection>>
       ELSE IF ~Cancellable(query_results[q])
       THEN /\ cancel_ret' = "Query is not running"
            /\ UNCHANGED <<query_results, connection>>
       ELSE LET attempted == query_results[q].snowflake_query_id # None /\ connection
            IN  /\ connection' = IF attempted /\ ro = "type_error" THEN FALSE ELSE connection
                /\ IF attempted /\ ro # "ok"
                   THEN /\ cancel_ret' = "Remote cancel failed"
                        /\ UNCHANGED query_results
                   ELSE /\ query_results' = [query_results EXCEPT ![q].status = CANCELLED,
                                                                 ![q].completed_at = now]
                        /\ cancel_ret' = "ok"

\* lines 643-668, the whole body under the lock; ro is what the remote
\* cancel does when it is attempted
cancel_query(q, ro) ==
    /\ UNCHANGED <<rvars, xvars>>
    /\ UNCHANGED <<next_qid, now, pc, cur>>
    /\ IF q \notin DOMAIN query_results
       THEN /\ cancel_ret' = "Query not found"
            /\ UNCHANGED <<query_results, connection>>
       ELSE IF ~Cancellable(query_results[q])
       THEN /\ cancel_ret' = "Query is not running"
            /\ UNCHANGED <<query_results, connection>>
       ELSE LET attempted == query_results[q].snowflake_query_id # None /\ connection
            IN  /\ connection' = IF attempted /\ ro = "type_error" THEN FALSE ELSE connection
                /\ query_results' = [query_results EXCEPT ![q].status = CANCELLED,
                                                         ![q].completed_at = now]
                /\ cancel_ret' = "ok"

\* lines 628-633: result["rows"][start_idx:end_idx] for 0 <= start_idx <= end_idx
PageOf(rows, start_idx, end_idx) ==
    SubSeq(rows, start_idx + 1, IF end_idx < Len(rows) THEN end_idx ELSE Len(rows))

\* a read that hands out the rows of every query that has not failed
ResultsUnlessFailed(qr, q, page, page_size) ==
    IF q \notin DOMAIN qr \/ qr[q].status = FAILED
    THEN [NoServiceRet EXCEPT !.op = "results", !.qid = q, !.page = page,
                              !.page_size = page_size]
    ELSE [NoServiceRet EXCEPT !.op = "results", !.qid = q, !.page = page,
                              !.page_size = page_size, !.none = FALSE,
                              !.rows = PageOf(qr[q].rows, (page - 1) * page_size,
                                             (page - 1) * page_size + page_size),
                              !.total_rows = Len(qr[q].rows),
                              !.has_more = (page - 1) * page_size + page_size < Len(qr[q].rows)]

\* lines 618-641: what get_query_results returns from the store qr; None
\* for an unknown id and for every status but SUCCESS
ServiceResults(qr, q, page, page_size) ==
    IF q \notin DOMAIN qr \/ qr[q].status # SUCCESS
    THEN [NoServiceRet EXCEPT !.op = "results", !.qid = q, !.page = page,
                              !.page_size = page_size]
    ELSE LET start_idx == (page - 1) * page_size
             end_idx == start_idx + page_size
         IN  [NoServiceRet EXCEPT !.op = "results", !.qid = q, !.page = page,
                                  !.page_size = page_size, !.none = FALSE,
                                  !.rows = PageOf(qr[q].rows, start_idx, end_idx),
                                  !.total_rows = Len(qr[q].rows),
                                  !.has_more = end_idx < Len(qr[q].rows)]

\* lines 598-616: what get_query_status returns from the store qr
ServiceStatus(qr, q) ==
    IF q \notin DOMAIN qr
    THEN [NoServiceRet EXCEPT !.op = "status", !.qid = q]
    ELSE [NoServiceRet EXCEPT !.op = "status", !.qid = q, !.none = FALSE,
                              !.status = qr[q].status,
                              !.error_message = qr[q].error_message]

\* SnowflakeService.get_query_results (lines 618-641), a read without the lock
get_query_results(q, page, page_size) ==
    /\ UNCHANGED <<rvars, mvars, cvars, identities, yvars>>
    /\ service_ret' = ServiceResults(query_results, q, page, page_size)
    /\ UNCHANGED svars

\* SnowflakeService.get_query_status (lines 598-616), a read without the lock
get_query_status(q) ==
    /\ UNCHANGED <<rvars, mvars, cvars, identities, yvars>>
    /\ service_ret' = ServiceStatus(query_results, q)
    /\ UNCHANGED svars

\* lines 118-147 and 238-390: a connect call that succeeds
Connect ==
    /\ UNCHANGED <<rvars, xvars>>
    /\ ~connection
    /\ connection' = TRUE
    /\ UNCHANGED <<query_results, next_qid, now, pc, cur, cancel_ret>>

\* lines 392-396
Disconnect ==
    /\ UNCHANGED <<rvars, xvars>>
    /\ connection
    /\ connection' = FALSE
    /\ UNCHANGED <<query_results, next_qid, now, pc, cur, cancel_ret>>

\* time passes
Tick ==
    /\ UNCHANGED <<rvars, xvars>>
    /\ now < MaxTime
    /\ now' = now + 1
    /\ UNCHANGED <<query_results, connection, next_qid, pc, cur, cancel_ret>>

\* ------------------------------------------------------------ query router
\* session_manager.create_session / remove_session: a handle is issued once
SessionCreate(h) ==
    /\ UNCHANGED <<svars, xvars>>
    /\ session_state[h] = "unused"
    /\ session_state' = [session_state EXCEPT ![h] = "live"]
    /\ last_request' = [NoRequest EXCEPT !.op = "create_session", !.hdr = h]
    /\ resp' = [NoResp EXCEPT !.op = "create_session", !.code = 200]
    /\ UNCHANGED <<session_results, router_next_qid, history, wh_executes, reader>>

SessionRemove(h) ==
    /\ UNCHANGED <<svars, xvars>>
    /\ session_state[h] = "live"
    /\ session_state' = [session_state EXCEPT ![h] = "closed"]
    /\ session_results' = [session_results EXCEPT ![h] = <<>>]
    /\ last_request' = [NoRequest EXCEPT !.op = "remove_session", !.hdr = h]
    /\ resp' = [NoResp EXCEPT !.op = "remove_session", !.code = 200]
    /\ UNCHANGED <<router_next_qid, history, wh_executes, reader>>

\* _get_session_or_401 (lines 245-260) finds a session
SessionFound(hdr) == hdr \in Handles /\ session_state[hdr] = "live"

Unauthorized(op) == [NoResp EXCEPT !.op = op, !.code = 401]

\* an entry stored before the warehouse call has returned
RunningEntry(columns, rows, t) ==
    [status |-> RUNNING, columns |-> columns, rows |-> rows, row_count |-> Len(rows),
     error_message |-> NoMsg, completed_at |-> t]

\* the dict stored at lines 462-470; the time fields hold the clock
SuccessEntry(columns, rows, t) ==
    [status |-> SUCCESS, columns |-> columns, rows |-> rows, row_count |-> Len(rows),
     error_message |-> NoMsg, completed_at |-> t]

\* the dict stored at lines 493-499; it has no "columns", "rows" and
\* "row_count" keys, which read as [] and None through dict.get
FailedEntry(msg, t) ==
    [status |-> FAILED, columns |-> <<>>, rows |-> <<>>, row_count |-> NoCount,
     error_message |-> msg, completed_at |-> t]

\* a loop that keeps the result set of every statement that has one
CollectLatest(rss, i, columns, rows) ==
    LET having == {j \in i..Len(rss) : rss[j].desc} IN
    IF having = {} THEN [columns |-> columns, rows |-> rows]
    ELSE LET j == CHOOSE j \in having : \A m \in having : m <= j
         IN  [columns |-> rss[j].cols, rows |-> rss[j].rows]

\* lines 436-448: the loop over the result sets of a multi-statement script
RECURSIVE CollectResults(_, _, _, _)
CollectResults(rss, i, columns, rows) ==
    IF i > Len(rss) THEN [columns |-> columns, rows |-> rows]
    ELSE IF rss[i].desc /\ (rss[i].rows # <<>> \/ rows = <<>>)
    THEN CollectResults(rss, i + 1, rss[i].cols, rss[i].rows)
    ELSE CollectResults(rss, i + 1, columns, rows)

\* lines 427-453: what execute keeps of the result sets rss of the script
Payload(sql, rss) ==
    IF count_statements(sql) > 1
    THEN CollectResults(rss, 1, <<>>, <<>>)
    ELSE [columns |-> IF rss[1].desc THEN rss[1].cols ELSE <<>>, rows |-> rss[1].rows]

\* number of result sets the warehouse holds after cursor.execute
NumResultSets(sql) == IF count_statements(sql) > 1 THEN count_statements(sql) ELSE 1

AllResultSets == UNION {ResultSetsOf(i) : i \in 1..MaxStatements}
ResultSeqs(n) ==
    IF n > MaxStatements THEN {}
    ELSE {f \in [1..n -> AllResultSets] : \A i \in 1..n : f[i] \in ResultSetsOf(i)}

\* _record_query_history (lines 263-288) with a sink that takes the record
RecordHistory(h, qid, status, row_count) ==
    Append(h, [query_id |-> qid, status |-> status, row_count |-> row_count])

\* line 413: `not request.sql or not request.sql.strip()`
BlankSql(sql) == sql = <<>> \/ Strip(sql) = <<>>

\* an insert that starts a new map each time
StoreInNewMap(old, qid, entry) == [q \in {qid} |-> entry]

\* lines 459-462 and 490-493: the map is created when the session has none
\* (written <<>>), then the entry is inserted
StoreEntry(old, qid, entry) ==
    [q \in DOMAIN old \cup {qid} |-> IF q = qid THEN entry ELSE old[q]]

\* POST /api/query/execute (lines 403-511).  fail is the warehouse call that
\* raises error e: "cursor", "execute" or "none"; rss are the result sets of
\* the statements
router_execute(hdr, sql, limit, fail, e, rss) ==
    /\ UNCHANGED <<svars, xvars>>
    /\ UNCHANGED <<session_state, reader>>
    /\ last_request' = [op |-> "execute", hdr |-> hdr, qid |-> 0, sql |-> sql,
                        limit |-> limit, fail |-> fail, rss |-> rss]
    /\ IF BlankSql(sql)
       THEN /\ resp' = [NoResp EXCEPT !.op = "execute", !.code = 400,
                                       !.message = <<"SQL query cannot be empty">>]
            /\ UNCHANGED <<session_results, router_next_qid, history, wh_executes>>
       ELSE IF ~SessionFound(hdr)
       THEN /\ resp' = Unauthorized("execute")
            /\ UNCHANGED <<session_results, router_next_qid, history, wh_executes>>
       ELSE
         LET qid == router_next_qid
             old == session_results[hdr]
             Store(entry) == [session_results EXCEPT ![hdr] = StoreEntry(old, qid, entry)]
         IN
         /\ router_next_qid <= MaxRouterQueries
         /\ Len(rss) = NumResultSets(sql)
         /\ Len(rss) <= MaxStatements
         /\ router_next_qid' = router_next_qid + 1
         /\ IF fail # "none"
            THEN /\ session_results' = Store(FailedEntry(<<e>>, now))
                 /\ wh_executes' = IF fail = "cursor" THEN wh_executes ELSE wh_executes + 1
                 /\ history' = RecordHistory(history, qid, FAILED, NoCount)
                 /\ resp' = [NoResp EXCEPT !.op = "execute", !.code = 200, !.qid = qid,
                                            !.status = FAILED, !.message = <<e>>]
            ELSE LET pl == Payload(sql, rss) IN
                 /\ session_results' = Store(SuccessEntry(pl.columns, pl.rows, now))
                 /\ wh_executes' = wh_executes + 1
                 /\ history' = RecordHistory(history, qid, SUCCESS, Len(pl.rows))
                 /\ resp' = [NoResp EXCEPT !.op = "execute", !.code = 200, !.qid = qid,
                                            !.status = SUCCESS, !.row_count = Len(pl.rows),
                                            !.message = <<"Query executed successfully">>]

\* a slice that takes the row at index end too
SliceThrough(rows, start, end) ==
    SubSeq(rows, start + 1, IF end + 1 < Len(rows) THEN end + 1 ELSE Len(rows))

\* rows[start:end] of Python for 0 <= start <= end
Slice(rows, start, end) == SubSeq(rows, start + 1, IF end < Len(rows) THEN end ELSE Len(rows))

\* GET /api/query/{query_id}/results (lines 537-576): the response
ResultsResponse(hdr, q, page, page_size) ==
    IF page < 1 \/ page_size < 1 \/ page_size > 1000
    THEN [NoResp EXCEPT !.op = "results", !.code = 422]
    ELSE IF ~SessionFound(hdr) THEN Unauthorized("results")
    ELSE IF q \notin DOMAIN session_results[hdr]
    THEN [NoResp EXCEPT !.op = "results", !.code = 404]
    ELSE LET result == session_results[hdr][q] IN
         IF result.status = FAILED
         THEN [NoResp EXCEPT !.op = "results", !.code = 400,
                             !.message = <<"Query failed: ">> \o result.error_message]
         ELSE IF result.status = RUNNING
         THEN [NoResp EXCEPT !.op = "results", !.code = 202]
         ELSE LET start == (page - 1) * page_size
                  end == start + page_size
              IN  [NoResp EXCEPT !.op = "results", !.code = 200,
                                 !.columns = result.columns,
                                 !.rows = Slice(result.rows, start, end),
                                 !.total_rows = Len(result.rows),
                                 !.page = page, !.page_size = page_size,
                                 !.has_more = end < Len(result.rows)]

\* GET /api/query/{query_id}/results (lines 537-576)
router_get_query_results(hdr, q, page, page_size) ==
    /\ UNCHANGED <<svars, xvars>>
    /\ last_request' = [NoRequest EXCEPT !.op = "results", !.hdr = hdr, !.qid = q]
    /\ resp' = ResultsResponse(hdr, q, page, page_size)
    /\ UNCHANGED <<session_state, session_results, router_next_qid, history, wh_executes,
                   reader>>

\* a status lookup that searches the results of every session
StatusResponseAnySession(hdr, q) ==
    IF ~SessionFound(hdr) THEN Unauthorized("status")
    ELSE IF \A h \in Handles : q \notin DOMAIN session_results[h]
    THEN [NoResp EXCEPT !.op = "status", !.code = 404, !.qid = q]
    ELSE LET result == session_results[CHOOSE h \in Handles :
                                          q \in DOMAIN session_results[h]][q]
         IN  [NoResp EXCEPT !.op = "status", !.code = 200, !.qid = q,
                            !.status = result.status,
                            !.row_count = result.row_count,
                            !.message = result.error_message]

\* GET /api/query/{query_id}/status (lines 514-534): the response
StatusResponse(hdr, q) ==
    IF ~SessionFound(hdr) THEN Unauthorized("status")
    ELSE IF q \notin DOMAIN session_results[hdr]
    THEN [NoResp EXCEPT !.op = "status", !.code = 404, !.qid = q]
    ELSE LET result == session_results[hdr][q]
         IN  [NoResp EXCEPT !.op = "status", !.code = 200, !.qid = q,
                            !.status = result.status,
                            !.row_count = result.row_count,
                            !.message = result.error_message]

\* GET /api/query/{query_id}/status (lines 514-534)
router_get_query_status(hdr, q) ==
    /\ UNCHANGED <<svars, xvars>>
    /\ last_request' = [NoRequest EXCEPT !.op = "status", !.hdr = hdr, !.qid = q]
    /\ resp' = StatusResponse(hdr, q)
    /\ UNCHANGED <<session_state, session_results, router_next_qid, history, wh_executes,
                   reader>>

\* a client asks for page 1 of a result with some page size
ReadFirstPage(hdr, q, page_size) ==
    /\ UNCHANGED <<svars, xvars>>
    /\ reader = NoReader
    /\ LET r == ResultsResponse(hdr, q, 1, page_size) IN
       /\ r.code = 200
       /\ last_request' = [NoRequest EXCEPT !.op = "results", !.hdr = hdr]
       /\ resp' = r
       /\ reader' = [handle |-> hdr, qid |-> q, page_size |-> page_size, next |-> 2,
                     acc |-> r.rows, has_more |-> r.has_more, total_rows |-> r.total_rows]
    /\ UNCHANGED <<session_state, session_results, router_next_qid, history, wh_executes>>

\* and then for the next page as long as the last response said has_more
ReadNextPage ==
    /\ UNCHANGED <<svars, xvars>>
    /\ reader # NoReader
    /\ reader.has_more
    /\ LET r == ResultsResponse(reader.handle, reader.qid, reader.next, reader.page_size) IN
       /\ r.code = 200
       /\ last_request' = [NoRequest EXCEPT !.op = "results", !.hdr = reader.handle]
       /\ resp' = r
       /\ reader' = [reader EXCEPT !.next = @ + 1, !.acc = @ \o r.rows,
                                   !.has_more = r.has_more, !.total_rows = r.total_rows]
    /\ UNCHANGED <<session_state, session_results, router_next_qid, history, wh_executes>>

\* POST /api/query/{query_id}/cancel (lines 579-602)
router_cancel_query(hdr, q) ==
    /\ UNCHANGED <<svars, xvars>>
    /\ UNCHANGED <<session_state, router_next_qid, history, wh_executes, reader>>
    /\ last_request' = [NoRequest EXCEPT !.op = "cancel", !.hdr = hdr]
    /\ IF ~SessionFound(hdr)
       THEN /\ resp' = Unauthorized("cancel")
            /\ UNCHANGED session_results
       ELSE IF q \notin DOMAIN session_results[hdr]
       THEN /\ resp' = [NoResp EXCEPT !.op = "cancel", !.code = 404, !.qid = q]
            /\ UNCHANGED session_results
       ELSE IF session_results[hdr][q].status # RUNNING
       THEN /\ resp' = [NoResp EXCEPT !.op = "cancel", !.code = 400, !.qid = q]
            /\ UNCHANGED session_results
       ELSE /\ session_results' = [session_results EXCEPT ![hdr][q].status = CANCELLED,
                                                          ![hdr][q].completed_at = now]
            /\ resp' = [NoResp EXCEPT !.op = "cancel", !.code = 200, !.qid = q,
                                       !.message = <<"Query cancelled">>]

\* the SQL texts submitted to the router
SqlInputs ==
    { <<>>, <<" ", "\n">>, <<"a">>, <<"a", ";", " ", "a">>, <<"a", ";", "a", ";", "a">> }

RouterFails == {"cursor", "execute"}

\* the texts of at most one statement, and the multi-statement scripts
SingleSqls == {sql \in SqlInputs : count_statements(sql) <= 1}
Scripts == {sql \in SqlInputs : count_statements(sql) > 1}

\* The router: sessions come and go, single statements are executed, queries
\* cancelled.
RouterNext ==
    \/ \E h \in Handles : SessionCreate(h)
    \/ \E h \in Handles : SessionRemove(h)
    \/ \E hdr \in Headers, sql \in SingleSqls, limit \in {0, 1} :
          \/ \E rs \in ResultSetsOf(1) :
                router_execute(hdr, sql, limit, "none", "E1", <<rs>>)
          \/ \E fail \in RouterFails, e \in Errors :
                router_execute(hdr, sql, limit, fail, e, <<ResultSet(1, FALSE, 0)>>)
    \/ \E hdr \in Headers, q \in RouterQIds : router_cancel_query(hdr, q)

RouterSpec == Init /\ [][RouterNext]_vars

\* One session that runs multi-statement scripts, with every sequence of
\* result sets the statements can yield.
ScriptNext ==
    \/ SessionCreate("s1")
    \/ \E sql \in Scripts :
          \/ \E rss \in ResultSeqs(NumResultSets(sql)) :
                router_execute("s1", sql, 0, "none", "E1", rss)
          \/ \E e \in Errors :
                router_execute("s1", sql, 0, "execute", e,
                               [i \in 1..NumResultSets(sql) |-> ResultSet(i, FALSE, 0)])

ScriptSpec == Init /\ [][ScriptNext]_vars

\* One session whose results a client reads page by page.
PageNext ==
    \/ SessionCreate("s1")
    \/ \E n \in 0..MaxPageRows :
          router_execute("s1", <<"a">>, 0, "none", "E1", <<ResultSet(1, TRUE, n)>>)
    \/ \E q \in RouterQIds, page_size \in 1..MaxPageSize : ReadFirstPage("s1", q, page_size)
    \/ ReadNextPage

PageSpec == Init /\ [][PageNext]_vars

\* the inputs of the concurrent specification: no context switch, one
\* result set, cursor creation that works or loses the connection
PlainRequests == {r \in Requests : r = NoReq}
PlainResultSets == {ResultSet(1, TRUE, 1)}
PlainCursorOutcomes == {"ok", "type_error"}

Next ==
    \/ \E t \in Threads, req \in PlainRequests : ExecuteBegin(t, req)
    \/ \E t \in Threads : ExecuteStore(t)
    \/ \E t \in Threads : ExecuteCheckConnection(t)
    \/ \E t \in Threads, co \in PlainCursorOutcomes, e \in Errors, rs \in PlainResultSets :
          ExecuteRun(t, co, "none", e, rs) \/ ExecuteRun(t, co, "sql", e, rs)
    \/ \E t \in Threads : ExecuteStoreSfqid(t)
    \/ \E t \in Threads : ExecuteSuccess(t)
    \/ \E t \in Threads : ExecuteExcept(t)
    \/ \E t \in Threads : ExecuteReturn(t)
    \/ \E q \in QIds, ro \in RemoteOutcomes : cancel_query(q, ro)
    \/ Connect
    \/ Tick

\* Concurrent callers of one connected SnowflakeService; the connection is
\* lost only through a failing cursor creation.
Spec == Init /\ [][Next]_vars

\* One caller of execute_query at a time, with every request, every cursor
\* outcome, every failing statement and every result set; the clock stands
\* still.
CallNext ==
    \/ \E req \in Requests : ExecuteBegin("t1", req)
    \/ ExecuteStore("t1")
    \/ ExecuteCheckConnection("t1")
    \/ \E co \in CursorOutcomes, failAt \in FailPoints, e \in Errors,
          rs \in ResultSetsOf(1) : ExecuteRun("t1", co, failAt, e, rs)
    \/ ExecuteStoreSfqid("t1")
    \/ ExecuteSuccess("t1")
    \/ ExecuteExcept("t1")
    \/ ExecuteReturn("t1")
    \/ \E q \in QIds, ro \in RemoteOutcomes : cancel_query(q, ro)
    \/ Connect
    \/ Disconnect

CallSpec == Init /\ [][CallNext]_vars

\* names of letters only, every dot-separated part a safe bareword, that
\* hold the word DROP in some case
KeywordNames == { <<"d", "r", "o", "p">>, <<"D", "B", ".", "b", "a", "D", "r", "o", "p">> }

\* requests whose warehouse, database and schema are left out, good, or
\* such a name
KeywordRequests ==
    [sql : {<<"a">>}, warehouse : {NoName, GoodName} \cup KeywordNames,
     database : {NoName, GoodName} \cup KeywordNames,
     schema : {NoName, GoodName} \cup KeywordNames, limit : {0}]

\* One caller of execute_query at a time with these requests
KeywordNext ==
    \/ \E req \in KeywordRequests : ExecuteBegin("t1", req)
    \/ ExecuteStore("t1")
    \/ ExecuteCheckConnection("t1")
    \/ \E co \in CursorOutcomes, failAt \in FailPoints, e \in Errors,
          rs \in ResultSetsOf(1) : ExecuteRun("t1", co, failAt, e, rs)
    \/ ExecuteStoreSfqid("t1")
    \/ ExecuteSuccess("t1")
    \/ ExecuteExcept("t1")
    \/ ExecuteReturn("t1")
    \/ \E q \in QIds, ro \in RemoteOutcomes : cancel_query(q, ro)
    \/ Connect
    \/ Disconnect

KeywordSpec == Init /\ [][KeywordNext]_vars

\* ---------------------------------------------------------- session manager
\* session_manager of app.services.session, written from its specification:
\* ACTIVE -> EXPIRED_IDLE | EXPIRED_ABSOLUTE | CLOSED, every operation
\* atomic on the session map. The clock counts in units of the idle TTL.
IdleTtl == 1
AbsoluteTtl == 3
MaxSessionTime == 4

\* the session is older or longer idle than the TTLs allow
IdleExpired(session, t) == t - session.last_used > IdleTtl
AgeExpired(session, t) == t - session.created_at > AbsoluteTtl

\* the states a session is in once it has left the map
Gone == {"EXPIRED_IDLE", "EXPIRED_ABSOLUTE", "CLOSED"}

\* how long the session of a header has been idle, if there ever was one
IdleOf(ss, hdr, t) ==
    IF hdr \in Handles /\ ss[hdr].state # "unused" THEN t - ss[hdr].last_used ELSE NoTime

\* get(handle): a miss for an unknown handle; a session past a TTL is
\* expired, its connection released, and the call is a miss; a hit sets
\* last-used to now
get_session(ss, rel, hdr, t) ==
    IF hdr \notin Handles \/ ss[hdr].state # "ACTIVE"
    THEN [sessions |-> ss, released |-> rel, hit |-> FALSE]
    ELSE IF IdleExpired(ss[hdr], t)
    THEN [sessions |-> [ss EXCEPT ![hdr].state = "EXPIRED_IDLE"],
          released |-> [rel EXCEPT ![hdr] = @ + 1], hit |-> FALSE]
    ELSE IF AgeExpired(ss[hdr], t)
    THEN [sessions |-> [ss EXCEPT ![hdr].state = "EXPIRED_ABSOLUTE"],
          released |-> [rel EXCEPT ![hdr] = @ + 1], hit |-> FALSE]
    ELSE [sessions |-> [ss EXCEPT ![hdr].last_used = t], released |-> rel, hit |-> TRUE]

\* remove(handle): releases the connection and deletes the session; returns
\* whether a session existed
remove_session(ss, rel, hdr) ==
    IF hdr \notin Handles \/ ss[hdr].state # "ACTIVE"
    THEN [sessions |-> ss, released |-> rel, hit |-> FALSE]
    ELSE [sessions |-> [ss EXCEPT ![hdr].state = "CLOSED"],
          released |-> [rel EXCEPT ![hdr] = @ + 1], hit |-> TRUE]

\* the session table with the header, the flag, and the state the call found
SessionAnswer(op, hdr, valid) ==
    [op |-> op, hdr |-> hdr, valid |-> valid, idle |-> IdleOf(sessions, hdr, now),
     before |-> sessions, released_before |-> released]

\* the other components, and the service apart from its clock
SessionFrame ==
    UNCHANGED <<rvars, service_ret, cvars, identities, yvars, query_results, connection,
                next_qid, pc, cur, cancel_ret>>

\* create(connection, identity) with a fresh handle, as connect calls it
\* (connection.py line 93)
create_session(h) ==
    /\ SessionFrame /\ UNCHANGED <<now, released>>
    /\ sessions[h].state = "unused"
    /\ sessions' = [sessions EXCEPT ![h] = [state |-> "ACTIVE", created_at |-> now,
                                            last_used |-> now]]
    /\ session_ret' = SessionAnswer("connect", h, TRUE)

\* an answer that takes every header for a valid session
ValidWithHeader(hdr, session_found) == hdr # None

\* lines 127-133: valid unless the header is missing or get_session is None
StatusValid(hdr, session_found) == hdr # None /\ session_found

\* GET /session/status (lines 122-146)
get_session_status(hdr) ==
    /\ SessionFrame /\ UNCHANGED now
    /\ IF hdr = None
       THEN /\ UNCHANGED <<sessions, released>>
            /\ session_ret' = SessionAnswer("status", hdr, StatusValid(hdr, FALSE))
       ELSE LET got == get_session(sessions, released, hdr, now) IN
            /\ sessions' = got.sessions
            /\ released' = got.released
            /\ session_ret' = SessionAnswer("status", hdr, StatusValid(hdr, got.hit))

\* _get_session_or_401 of the query router (query.py lines 245-260): valid
\* stands for the session returned, not valid for the 401
get_session_or_401(hdr) ==
    /\ SessionFrame /\ UNCHANGED now
    /\ IF hdr = None
       THEN /\ UNCHANGED <<sessions, released>>
            /\ session_ret' = SessionAnswer("require", hdr, FALSE)
       ELSE LET got == get_session(sessions, released, hdr, now) IN
            /\ sessions' = got.sessions
            /\ released' = got.released
            /\ session_ret' = SessionAnswer("require", hdr, got.hit)

\* an answer that reports every disconnect with a header as done
DisconnectedWithHeader(hdr, removed) == hdr # None

\* lines 154-160: disconnected is what remove_session returned
Disconnected(hdr, removed) == hdr # None /\ removed

\* POST /disconnect (lines 149-160)
disconnect(hdr) ==
    /\ SessionFrame /\ UNCHANGED now
    /\ IF hdr = None
       THEN /\ UNCHANGED <<sessions, released>>
            /\ session_ret' = SessionAnswer("disconnect", hdr, Disconnected(hdr, FALSE))
       ELSE LET removed == remove_session(sessions, released, hdr) IN
            /\ sessions' = removed.sessions
            /\ released' = removed.released
            /\ session_ret' = SessionAnswer("disconnect", hdr, Disconnected(hdr, removed.hit))

\* the sessions a sweep expires
Stale(ss, t) == {h \in Handles : ss[h].state = "ACTIVE"
                                 /\ (IdleExpired(ss[h], t) \/ AgeExpired(ss[h], t))}

\* a periodic sweep: every session past a TTL is expired and released
sweep ==
    /\ SessionFrame /\ UNCHANGED now
    /\ Stale(sessions, now) # {}
    /\ sessions' = [h \in Handles |->
                      IF h \in Stale(sessions, now)
                      THEN [sessions[h] EXCEPT !.state =
                              IF IdleExpired(sessions[h], now) THEN "EXPIRED_IDLE"
                              ELSE "EXPIRED_ABSOLUTE"]
                      ELSE sessions[h]]
    /\ released' = [h \in Handles |->
                      IF h \in Stale(sessions, now) THEN released[h] + 1 ELSE released[h]]
    /\ session_ret' = SessionAnswer("sweep", None, FALSE)

\* time passes for the sessions
SessionTick ==
    /\ SessionFrame /\ UNCHANGED mvars
    /\ now < MaxSessionTime
    /\ now' = now + 1

\* Sessions are created, looked up by the endpoints, disconnected and swept
\* in any order while time passes.
SessionNext ==
    \/ \E h \in Handles : create_session(h)
    \/ \E hdr \in Headers : get_session_status(hdr)
    \/ \E hdr \in Headers : get_session_or_401(hdr)
    \/ \E hdr \in Headers : disconnect(hdr)
    \/ sweep
    \/ SessionTick

SessionSpec == Init /\ [][SessionNext]_vars

\* ------------------------------------------------------------ MetadataCache
\* config.py lines 26-29, in seconds
cache_ttl_databases == 300
cache_ttl_schemas == 300
cache_ttl_tables == 120
cache_ttl_columns == 600

\* the clock of the caches advances in steps of TickSeconds up to MaxCacheTime
TickSeconds == 60
MaxCacheTime == 660
\* the caches hold at most MaxEntries entries together
MaxEntries == 2

\* lines 114-118: the ttl of each TTLCache
Ttl(c) ==
    CASE c = "databases" -> cache_ttl_databases
      [] c = "schemas" -> cache_ttl_schemas
      [] c = "tables" -> cache_ttl_tables
      [] c = "columns" -> cache_ttl_columns
      [] c = "capabilities" -> cache_ttl_tables

\* scope=None and every other falsy scope is "", a None argument is ""
Unscoped == ""
NoArg == ""
Scopes == {Unscoped, "A", "B", "all"}
Databases == {"d1", "d2"}
Schemas == {"x"}
Tables == {"t"}

\* the arguments a get or set of a category takes
ArgsOf(c) ==
    CASE c = "databases" -> {<<>>}
      [] c = "schemas" -> {<<d>> : d \in Databases}
      [] c = "tables" -> {<<d, x>> : d \in Databases, x \in Schemas}
      [] c = "columns" -> {<<d, x, t>> : d \in Databases, x \in Schemas, t \in Tables}
      [] c = "capabilities" -> {<<d, x>> : d \in Databases, x \in Schemas}

\* the arguments a clear of a category takes: each may be None
ClearArgsOf(c) ==
    CASE c = "databases" -> {<<>>}
      [] c = "schemas" -> {<<d>> : d \in Databases \cup {NoArg}}
      [] c = "tables" -> {<<d, x>> : d \in Databases \cup {NoArg}, x \in Schemas \cup {NoArg}}
      [] c = "columns" -> {<<d, x, t>> : d \in Databases \cup {NoArg},
                                         x \in Schemas \cup {NoArg}, t \in Tables \cup {NoArg}}
      [] c = "capabilities" ->
            {<<d, x>> : d \in Databases \cup {NoArg}, x \in Schemas \cup {NoArg}}

\* lines 120-123: the md5 of the JSON list of the arguments, which differs
\* whenever the arguments differ; the list stands for its digest
make_key(args) == args

\* a key that leaves the scope out
UnscopedKey(scope, args) == make_key(args)

\* lines 125-129
scoped_key(scope, args) ==
    IF scope # Unscoped THEN make_key(<<scope>> \o args) ELSE make_key(args)

\* the key of a get or set: scope or "all" for the databases (lines 134,
\* 138), the scoped key for the others
KeyOf(c, scope, args) ==
    IF c = "databases" THEN <<IF scope # Unscoped THEN scope ELSE "all">>
    ELSE scoped_key(scope, args)

\* an entry that is handed out up to and at its expiry time
LiveThrough(cc, key, t) == key \in DOMAIN cc /\ t <= cc[key].expires

\* TTLCache: an entry is handed out while timer() < expires
Live(cc, key, t) == key \in DOMAIN cc /\ t < cc[key].expires

\* TTLCache.expire, run by every write: the expired entries are dropped
Expire(cc, t) == Restrict(cc, {k \in DOMAIN cc : t < cc[k].expires})

\* TTLCache.__setitem__: expires = timer() + ttl
Put(cc, key, data, t, ttl) ==
    [k \in DOMAIN Expire(cc, t) \cup {key} |->
        IF k = key THEN [data |-> data, expires |-> t + ttl] ELSE cc[k]]

\* TTLCache.pop(key, None)
Pop(cc, key) == Restrict(cc, DOMAIN cc \ {key})

\* the number of entries in all five caches
TotalEntries(ca) ==
    Cardinality({ck \in UNION {{<<c, k>> : k \in DOMAIN ca[c]} : c \in Categories} : TRUE})

CacheFrame == UNCHANGED <<svars, rvars, service_ret, mvars, identities, yvars>>

CacheCall(op, c, scope, args, hit, data) ==
    [op |-> op, category |-> c, scope |-> scope, args |-> args, hit |-> hit,
     data |-> data, at |-> cache_time]

\* set_databases, set_schemas, set_tables, set_columns, set_capabilities
\* (lines 136-138, 150-153, 168-172, 187-191, 216-219); the value written
\* names the scope and the arguments it was fetched for
cache_set(c, scope, args) ==
    /\ CacheFrame /\ UNCHANGED cache_time
    /\ LET key == KeyOf(c, scope, args)
           data == [NoData EXCEPT !.scope = scope, !.args = args, !.set_at = cache_time]
       IN  /\ key \in DOMAIN cache[c] \/ TotalEntries(cache) < MaxEntries
           /\ cache' = [cache EXCEPT ![c] = Put(@, key, data, cache_time, Ttl(c))]
           /\ cache_ret' = [NoCacheRet EXCEPT !.op = "set"]

\* get_databases, get_schemas, get_tables, get_columns, get_capabilities
\* (lines 132-134, 145-148, 163-166, 182-185, 211-214)
cache_get(c, scope, args) ==
    /\ CacheFrame /\ UNCHANGED <<cache, cache_time>>
    /\ LET key == KeyOf(c, scope, args) IN
       cache_ret' = IF Live(cache[c], key, cache_time)
                    THEN CacheCall("get", c, scope, args, TRUE, cache[c][key].data)
                    ELSE CacheCall("get", c, scope, args, FALSE, NoData)

\* what clear_schemas, clear_tables, clear_columns, clear_capabilities leave
\* of their cache (lines 155-161, 174-180, 193-199, 221-227), and
\* clear_databases, which has no parameter (lines 140-142)
Cleared(cc, c, scope, args) ==
    IF c # "databases" /\ \A i \in DOMAIN args : args[i] # NoArg
    THEN Pop(cc, scoped_key(scope, args))
    ELSE <<>>

cache_clear(c, scope, args) ==
    /\ CacheFrame /\ UNCHANGED cache_time
    /\ cache' = [cache EXCEPT ![c] = Cleared(@, c, scope, args)]
    /\ cache_ret' = CacheCall("clear", c, scope, args, FALSE, NoData)

\* lines 201-208
clear_all ==
    /\ CacheFrame /\ UNCHANGED cache_time
    /\ cache' = NoCache
    /\ cache_ret' = CacheCall("clear_all", None, Unscoped, <<>>, FALSE, NoData)

\* POST /api/metadata/refresh of a session with cache scope `scope`
\* (metadata.py lines 437-462); args are database, schema and table, each
\* NoArg when not given
Refreshed(ca, scope, args) ==
    IF args[3] # NoArg /\ args[2] # NoArg /\ args[1] # NoArg
    THEN [ca EXCEPT !["columns"] = Cleared(@, "columns", scope, args)]
    ELSE IF args[2] # NoArg /\ args[1] # NoArg
    THEN [ca EXCEPT !["tables"] = Cleared(@, "tables", scope, <<args[1], args[2]>>)]
    ELSE IF args[1] # NoArg
    THEN [ca EXCEPT !["schemas"] = Cleared(@, "schemas", scope, <<args[1]>>)]
    ELSE NoCache

refresh_cache(scope, args) ==
    /\ CacheFrame /\ UNCHANGED cache_time
    /\ cache' = Refreshed(cache, scope, args)
    /\ cache_ret' = CacheCall("refresh", None, scope, args, FALSE, NoData)

\* the timer of the caches advances
CacheTick ==
    /\ CacheFrame /\ UNCHANGED <<cache, cache_ret>>
    /\ cache_time < MaxCacheTime
    /\ cache_time' = cache_time + TickSeconds

\* The cache under several scopes, the clock standing still: values are set,
\* read and invalidated in any order.
CacheNext ==
    \/ \E c \in Categories, scope \in Scopes : \E args \in ArgsOf(c) : cache_set(c, scope, args)
    \/ \E c \in Categories, scope \in Scopes : \E args \in ArgsOf(c) : cache_get(c, scope, args)
    \/ \E c \in Categories, scope \in Scopes : \E args \in ClearArgsOf(c) :
          cache_clear(c, scope, args)
    \/ clear_all

CacheSpec == Init /\ [][CacheNext]_vars

\* the cache scopes of two sessions
SessionScopes == {"A", "B"}

\* Two sessions fill the cache and invalidate it, through the clear methods
\* and through the refresh endpoint.
InvalidateNext ==
    \/ \E c \in Categories, scope \in SessionScopes : \E args \in ArgsOf(c) :
          cache_set(c, scope, args)
    \/ \E c \in Categories, scope \in SessionScopes : \E args \in ClearArgsOf(c) :
          cache_clear(c, scope, args)
    \/ clear_all
    \/ \E scope \in SessionScopes, args \in ClearArgsOf("columns") :
          refresh_cache(scope, args)

InvalidateSpec == Init /\ [][InvalidateNext]_vars

\* The cache under one scope while time passes: values are set and read.
TtlNext ==
    \/ \E c \in Categories : cache_set(c, "A", CHOOSE args \in ArgsOf(c) : TRUE)
    \/ \E c \in Categories : cache_get(c, "A", CHOOSE args \in ArgsOf(c) : TRUE)
    \/ CacheTick

TtlSpec == Init /\ [][TtlNext]_vars

\* -------------------------------------------------------------- cache scope
\* metadata.py lines 50-52: the four fields joined with ':'
cache_scope(session) ==
    session.account \o <<":">> \o session.user \o <<":">> \o session.role
                    \o <<":">> \o session.warehouse

\* the values of an identity field: the account is the text of the connect
\* request, user, role and warehouse are the names the warehouse reports
\* (connection.py lines 89-100)
FieldValues == {<<"a">>, <<"b">>, <<"a", ":", "b">>, <<"b", ":", "a">>}
Identities == [account : FieldValues, user : FieldValues, role : FieldValues,
               warehouse : {<<"w">>}]

\* two sessions with any identities
ScopeInit ==
    /\ BaseInit /\ call = NoCall
    /\ identities \in [first : Identities, second : Identities, scopes : {<<>>}]

\* the metadata router computes the scopes of the two sessions
compute_scopes ==
    /\ UNCHANGED <<svars, rvars, service_ret, mvars, cvars, yvars>>
    /\ identities.scopes = <<>>
    /\ identities' = [identities EXCEPT !.scopes = <<cache_scope(identities.first),
                                                     cache_scope(identities.second)>>]

ScopeNext == compute_scopes

ScopeSpec == ScopeInit /\ [][ScopeNext]_vars

\* the page numbers and page sizes of the read calls
Pages == 1..2
PageSizes == 1..2

\* nothing has called SnowflakeService, nothing has called the query router
ServiceFresh == query_results = <<>> /\ next_qid = 1 /\ ~connection
                /\ pc["t1"] = "idle" /\ service_ret = NoServiceRet
RouterFresh == last_request = NoRequest /\ \A h \in Handles : session_state[h] = "unused"

\* Reading results and status: a behaviour drives either SnowflakeService
\* (one caller, queries run, fail and are cancelled, any id is read) or the
\* query router (two sessions, any header reads any id).
ResultsNext ==
    \/ \E req \in PlainRequests : RouterFresh /\ ExecuteBegin("t1", req)
    \/ RouterFresh /\ ExecuteStore("t1")
    \/ RouterFresh /\ ExecuteCheckConnection("t1")
    \/ \E failAt \in {"none", "sql"}, rs \in ResultSetsOf(1) :
          RouterFresh /\ ExecuteRun("t1", "ok", failAt, "E1", rs)
    \/ RouterFresh /\ ExecuteStoreSfqid("t1")
    \/ RouterFresh /\ ExecuteSuccess("t1")
    \/ RouterFresh /\ ExecuteExcept("t1")
    \/ RouterFresh /\ ExecuteReturn("t1")
    \/ \E q \in QIds : RouterFresh /\ cancel_query(q, "ok")
    \/ RouterFresh /\ Connect
    \/ \E q \in QIds, page \in Pages, page_size \in PageSizes :
          RouterFresh /\ get_query_results(q, page, page_size)
    \/ \E q \in QIds : RouterFresh /\ get_query_status(q)
    \/ \E h \in Handles : ServiceFresh /\ SessionCreate(h)
    \/ \E hdr \in Headers, rs \in ResultSetsOf(1) :
          ServiceFresh /\ router_execute(hdr, <<"a">>, 0, "none", "E1", <<rs>>)
    \/ \E hdr \in Headers :
          ServiceFresh /\ router_execute(hdr, <<"a">>, 0, "execute", "E1",
                                         <<ResultSet(1, FALSE, 0)>>)
    \/ \E hdr \in Headers, q \in RouterQIds :
          ServiceFresh /\ router_cancel_query(hdr, q)
    \/ \E hdr \in Headers, q \in RouterQIds, page \in Pages, page_size \in PageSizes :
          ServiceFresh /\ router_get_query_results(hdr, q, page, page_size)

ResultsSpec == Init /\ [][ResultsNext]_vars

\* Two sessions that come and go, execute single statements, and read the
\* status and the results of, and cancel, any query id with any header.
IsolationNext ==
    \/ \E h \in Handles : SessionCreate(h)
    \/ \E h \in Handles : SessionRemove(h)
    \/ \E hdr \in Handles :
          \/ router_execute(hdr, <<"a">>, 0, "none", "E1", <<ResultSet(1, TRUE, 1)>>)
          \/ router_execute(hdr, <<"a">>, 0, "execute", "E1", <<ResultSet(1, FALSE, 0)>>)
    \/ \E hdr \in Headers, q \in RouterQIds : router_get_query_status(hdr, q)
    \/ \E hdr \in Headers, q \in RouterQIds : router_get_query_results(hdr, q, 1, 1)
    \/ \E hdr \in Headers, q \in RouterQIds : router_cancel_query(hdr, q)

IsolationSpec == Init /\ [][IsolationNext]_vars

\* ---------------------------------------------------------- metadata router
\* the cache scope of the session of a handle
ScopeOf(h) == IF h = "s1" THEN "A" ELSE "B"

\* the databases the capabilities are asked for; str.upper() of their names
MetaDatabases == {"d1", "atlan_gold"}
UpperName(d) ==
    CASE d = "d1" -> "D1"
      [] d = "atlan_gold" -> "ATLAN_GOLD"
      [] OTHER -> d

\* the arguments of the five read endpoints
MetaArgsOf(c) ==
    CASE c = "databases" -> {<<>>}
      [] c = "schemas" -> {<<"d1">>}
      [] c = "tables" -> {<<"d1", "x">>}
      [] c = "columns" -> {<<"d1", "x", "t">>}
      [] c = "capabilities" -> {<<d, "x">> : d \in MetaDatabases}

\* what the warehouse lists: nothing, or the names of one of two catalog
\* states
MetaLists == {<<>>, <<"n1">>, <<"n2">>}

\* the exceptions of a warehouse call: the two network classes, a
\* ProgrammingError with a permission errno or message, and any other
\* exception
NetworkErrors == {"OperationalError", "TimeoutError"}
PermissionErrors == {"ProgrammingError:2003"}
MetaErrors == NetworkErrors \cup PermissionErrors \cup {"ValueError"}

\* what the warehouse does in one call of an endpoint: the rows of the
\* listing, the rows of the same schema of ATLAN_GOLD, or an exception
Fetched(rows, gold_rows) == [error |-> None, rows |-> rows, gold_rows |-> gold_rows]
Raised(e) == [error |-> e, rows |-> <<>>, gold_rows |-> <<>>]
ListOutcomes == {Fetched(rows, <<>>) : rows \in MetaLists} \cup {Raised(e) : e \in MetaErrors}
CapabilityOutcomes ==
    {Fetched(rows, gold_rows) : rows \in MetaLists, gold_rows \in {<<>>, <<"n2">>}}
        \cup {Raised(e) : e \in MetaErrors}

\* an error handler that answers every exception with an empty list
HandleAsEmpty(e) == [status |-> 200, body |-> <<>>]

\* _handle_snowflake_error (lines 55-85): a JSONResponse with status 503 for
\* the network classes, [] for the permission errors and [] for the rest
handle_snowflake_error(e) ==
    IF e \in NetworkErrors THEN [status |-> 503, body |-> <<>>]
    ELSE IF e \in PermissionErrors THEN [status |-> 200, body |-> <<>>]
    ELSE [status |-> 200, body |-> <<>>]

\* _get_session_or_none (lines 43-47): no lookup without a header
get_session_or_none(hdr) ==
    IF hdr = None THEN [sessions |-> sessions, released |-> released, hit |-> FALSE]
    ELSE get_session(sessions, released, hdr, now)

\* a test that takes every cached list, the empty one too, for a hit
NotNone(list) == TRUE

\* `if cached:` of a list endpoint: None and the empty list are both falsy
Truthy(list) == list # <<>>

MetaFrame ==
    UNCHANGED <<svars, rvars, service_ret, session_ret, cache_time, cache_ret, identities,
                result_cache, result_ret, preflight_ret, call>>

MetaCall(op, hdr, found, args, refresh) ==
    [NoMetaRet EXCEPT !.op = op, !.hdr = hdr, !.found = found, !.args = args,
                      !.scope = IF found THEN ScopeOf(hdr) ELSE "", !.refresh = refresh]

\* the cache has room for the entry of the key
Room(c, key) == key \in DOMAIN cache[c] \/ TotalEntries(cache) < MaxEntries

\* list_databases, list_schemas, list_tables, list_columns (lines 122-157,
\* 160-197, 200-274, 277-323): [] without a session; the cached list unless
\* refresh is set or the cached value is falsy; else the listing of the
\* warehouse, written through to the cache, or the answer of the error
\* handler
list_metadata(c, hdr, args, refresh, outcome) ==
    LET got == get_session_or_none(hdr)
        scope == ScopeOf(hdr)
        key == KeyOf(c, scope, args)
        ret == MetaCall(c, hdr, got.hit, args, refresh)
        hit == Live(cache[c], key, cache_time)
    IN  /\ MetaFrame
        /\ sessions' = got.sessions
        /\ released' = got.released
        /\ IF ~got.hit
           THEN /\ meta_ret' = [ret EXCEPT !.status = 200]
                /\ UNCHANGED cache
           ELSE IF ~refresh /\ hit /\ Truthy(cache[c][key].data.list)
           THEN /\ meta_ret' = [ret EXCEPT !.consulted = TRUE, !.status = 200,
                                           !.body = cache[c][key].data.list]
                /\ UNCHANGED cache
           ELSE IF outcome.error # None
           THEN /\ meta_ret' = [ret EXCEPT !.consulted = ~refresh, !.queried = TRUE,
                                           !.error = outcome.error,
                                           !.status = handle_snowflake_error(outcome.error).status,
                                           !.body = handle_snowflake_error(outcome.error).body]
                /\ UNCHANGED cache
           ELSE /\ Room(c, key)
                /\ cache' = [cache EXCEPT ![c] =
                               Put(@, key, [NoData EXCEPT !.scope = scope, !.args = args,
                                                          !.set_at = cache_time,
                                                          !.list = outcome.rows],
                                   cache_time, Ttl(c))]
                /\ meta_ret' = [ret EXCEPT !.consulted = ~refresh, !.queried = TRUE,
                                           !.status = 200, !.body = outcome.rows]

\* get_capabilities (lines 326-434): 401 without a session; the cached
\* payload unless refresh or include_all_tables is set; else the tables of
\* the schema, those of ATLAN_GOLD when the schema has none, cached under
\* the database the payload names. The payload stands for its tables and
\* its database.
get_capabilities(hdr, args, refresh, include_all_tables, outcome) ==
    LET got == get_session_or_none(hdr)
        scope == ScopeOf(hdr)
        ret == MetaCall("capabilities", hdr, got.hit, args, refresh)
        consult == ~refresh /\ ~include_all_tables
        asked == KeyOf("capabilities", scope, args)
        fallback == /\ outcome.rows = <<>>
                    /\ UpperName(args[1]) # "ATLAN_GOLD"
                    /\ outcome.gold_rows # <<>>
        tables == IF fallback THEN outcome.gold_rows ELSE outcome.rows
        database == IF fallback THEN "ATLAN_GOLD" ELSE args[1]
        key == KeyOf("capabilities", scope, <<database, args[2]>>)
    IN  /\ MetaFrame
        /\ sessions' = got.sessions
        /\ released' = got.released
        /\ IF ~got.hit
           THEN /\ meta_ret' = [ret EXCEPT !.status = 401]
                /\ UNCHANGED cache
           ELSE IF consult /\ Live(cache["capabilities"], asked, cache_time)
           THEN /\ meta_ret' = [ret EXCEPT !.consulted = TRUE, !.status = 200,
                                   !.body = cache["capabilities"][asked].data.list,
                                   !.database = cache["capabilities"][asked].data.database]
                /\ UNCHANGED cache
           ELSE IF outcome.error # None
           THEN /\ meta_ret' = [ret EXCEPT !.consulted = consult, !.queried = TRUE,
                                           !.error = outcome.error,
                                           !.status = handle_snowflake_error(outcome.error).status,
                                           !.database = args[1]]
                /\ UNCHANGED cache
           ELSE /\ Room("capabilities", key)
                /\ cache' = [cache EXCEPT !["capabilities"] =
                               Put(@, key, [NoData EXCEPT !.scope = scope,
                                                          !.args = <<database, args[2]>>,
                                                          !.set_at = cache_time,
                                                          !.list = tables,
                                                          !.database = database],
                                   cache_time, Ttl("capabilities"))]
                /\ meta_ret' = [ret EXCEPT !.consulted = consult, !.queried = TRUE,
                                           !.status = 200, !.body = tables,
                                           !.database = database]

\* POST /refresh with the session lookup (lines 437-462): 401 without a
\* session, else the cache of the scope is cleared
metadata_refresh(hdr, args) ==
    LET got == get_session_or_none(hdr)
        ret == MetaCall("refresh", hdr, got.hit, args, FALSE)
    IN  /\ MetaFrame
        /\ sessions' = got.sessions
        /\ released' = got.released
        /\ IF ~got.hit
           THEN /\ meta_ret' = [ret EXCEPT !.status = 401]
                /\ UNCHANGED cache
           ELSE /\ meta_ret' = [ret EXCEPT !.status = 200]
                /\ cache' = Refreshed(cache, ScopeOf(hdr), args)

ListEndpoints == {"databases", "schemas", "tables", "columns"}

\* refresh and include_all_tables of a capabilities request
RefreshFlags == {<<FALSE, FALSE>>, <<TRUE, FALSE>>, <<FALSE, TRUE>>}

\* One session reads the catalog through the five endpoints, with and
\* without refresh, while the warehouse lists what it likes or fails.
MetaNext ==
    \/ create_session("s1")
    \/ \E c \in ListEndpoints, refresh \in BOOLEAN :
          \E args \in MetaArgsOf(c), outcome \in ListOutcomes :
             list_metadata(c, "s1", args, refresh, outcome)
    \/ \E flags \in RefreshFlags :
          \E args \in MetaArgsOf("capabilities"), outcome \in CapabilityOutcomes :
             get_capabilities("s1", args, flags[1], flags[2], outcome)

MetaSpec == Init /\ [][MetaNext]_vars

\* the arguments and the listing of the calls whose session is in question
AnyArgs(c) == CHOOSE args \in MetaArgsOf(c) : TRUE
AnyListing == Fetched(<<"n1">>, <<>>)

AuthHeaders == {None, "unknown", "s1"}

\* A session comes and expires while the endpoints of both routers are
\* called with no header, an unknown handle, and the handle of the session.
AuthNext ==
    \/ create_session("s1")
    \/ SessionTick
    \/ \E hdr \in AuthHeaders : get_session_or_401(hdr)
    \/ \E c \in ListEndpoints, hdr \in AuthHeaders :
          list_metadata(c, hdr, AnyArgs(c), FALSE, AnyListing)
    \/ \E hdr \in AuthHeaders :
          get_capabilities(hdr, AnyArgs("capabilities"), FALSE, FALSE, AnyListing)
    \/ \E hdr \in AuthHeaders : metadata_refresh(hdr, <<NoArg, NoArg, NoArg>>)

AuthSpec == Init /\ [][AuthNext]_vars

\* --------------------------------------------------------- QueryResultCache
\* str.lower() on the letters of the SQL texts
LowerOf(c) ==
    CASE c = "A" -> "a" [] c = "B" -> "b" [] c = "C" -> "c" [] OTHER -> c
Lower(s) == [i \in 1..Len(s) |-> LowerOf(s[i])]

\* str.split(): the maximal runs of characters that are no whitespace
RECURSIVE SplitWords(_)
SplitWords(s) ==
    LET t == LStrip(s)
        stops == {i \in 1..Len(t) : t[i] \in Whitespace}
        n == IF stops = {} THEN Len(t) ELSE Min(stops) - 1
    IN  IF t = <<>> THEN <<>>
        ELSE <<SubSeq(t, 1, n)>> \o SplitWords(SubSeq(t, n + 1, Len(t)))

\* ' '.join(words)
RECURSIVE JoinWords(_)
JoinWords(words) ==
    IF words = <<>> THEN <<>>
    ELSE IF Len(words) = 1 THEN words[1]
    ELSE words[1] \o <<" ">> \o JoinWords(Tail(words))

\* a normalisation that only strips the text
StripOnly(sql) == Strip(sql)

\* line 40: ' '.join(sql.strip().split()).lower()
normalize_sql(sql) == Lower(JoinWords(SplitWords(Strip(sql))))

\* _make_key (lines 37-47): the sha256 of the JSON object of the normalised
\* SQL, the database and the schema, which differs whenever one of the
\* three differs; the triple stands for its digest
query_make_key(sql, database, schema) == <<normalize_sql(sql), database, schema>>

\* line 65: 5 * 1024 * 1024
MaxResultBytes == 5242880

\* the results to cache: their rows and len(json.dumps(result)); the third
\* is one byte over the limit
Results == {[NoResult EXCEPT !.rows = <<1>>, !.size = 1],
            [NoResult EXCEPT !.rows = <<2>>, !.size = MaxResultBytes],
            [NoResult EXCEPT !.rows = <<3>>, !.size = MaxResultBytes + 1]}

\* a size check that lets every result pass
AlwaysCacheable(result) == TRUE

\* lines 64-66: results over the limit are not cached
Cacheable(result) == ~(result.size > MaxResultBytes)

\* the SQL texts of the cache calls: one query in three spellings, and two
\* other queries
CacheSqls == { <<"a", " ", "b">>, <<"A", " ", "\n", "B">>, <<" ", "a", "\t", "b", " ">>,
               <<"a", "b">>, <<>> }
\* the database and the schema of a call
Contexts == {<<None, None>>, <<"d1", None>>, <<"d1", "x">>}

\* the cache holds at most MaxCached entries, the counters count to MaxLookups
MaxCached == 2
MaxLookups == 2

ResultFrame ==
    UNCHANGED <<svars, rvars, service_ret, mvars, cvars, identities, meta_ret,
                preflight_ret, call>>

ResultCall(op, sql, database, schema, result, hit) ==
    [op |-> op, sql |-> sql, database |-> database, schema |-> schema,
     result |-> result, hit |-> hit]

\* QueryResultCache.get (lines 49-58)
result_get(sql, database, schema) ==
    LET key == query_make_key(sql, database, schema)
        hit == key \in DOMAIN result_cache.entries
    IN  /\ ResultFrame
        /\ result_cache.hits + result_cache.misses < MaxLookups
        /\ result_cache' = IF hit THEN [result_cache EXCEPT !.hits = @ + 1]
                           ELSE [result_cache EXCEPT !.misses = @ + 1]
        /\ result_ret' = ResultCall("get", sql, database, schema,
                                    IF hit THEN result_cache.entries[key] ELSE NoResult, hit)

\* a set that drops the entry of the key when it refuses the result
result_set_dropping(sql, result, database, schema) ==
    LET key == query_make_key(sql, database, schema)
        old == result_cache.entries
    IN  /\ ResultFrame
        /\ key \in DOMAIN old \/ Cardinality(DOMAIN old) < MaxCached
        /\ result_cache' =
              IF Cacheable(result)
              THEN [result_cache EXCEPT !.entries =
                      [k \in DOMAIN old \cup {key} |->
                          IF k = key THEN [result EXCEPT !.cached = TRUE] ELSE old[k]]]
              ELSE [result_cache EXCEPT !.entries = Restrict(old, DOMAIN old \ {key})]
        /\ result_ret' = ResultCall("set", sql, database, schema, result, FALSE)

\* QueryResultCache.set (lines 60-71); the entry is the result with the
\* marker _from_cache
result_set(sql, result, database, schema) ==
    LET key == query_make_key(sql, database, schema)
        old == result_cache.entries
    IN  /\ ResultFrame
        /\ key \in DOMAIN old \/ Cardinality(DOMAIN old) < MaxCached
        /\ result_cache' =
              IF Cacheable(result)
              THEN [result_cache EXCEPT !.entries =
                      [k \in DOMAIN old \cup {key} |->
                          IF k = key THEN [result EXCEPT !.cached = TRUE] ELSE old[k]]]
              ELSE result_cache
        /\ result_ret' = ResultCall("set", sql, database, schema, result, FALSE)

\* QueryResultCache.invalidate (lines 73-80): one key, or all without SQL
result_invalidate(sql, database, schema) ==
    /\ ResultFrame
    /\ result_cache' =
          [result_cache EXCEPT !.entries =
              IF sql # <<>>
              THEN Restrict(@, DOMAIN @ \ {query_make_key(sql, database, schema)})
              ELSE <<>>]
    /\ result_ret' = [NoResultRet EXCEPT !.op = "invalidate"]

\* QueryResultCache.clear (lines 96-101)
result_clear ==
    /\ ResultFrame
    /\ result_cache' = NoResultCache
    /\ result_ret' = [NoResultRet EXCEPT !.op = "clear"]

\* Results are cached, looked up and invalidated in any order; the clock of
\* the TTLCache stands still.
ResultCacheNext ==
    \/ \E sql \in CacheSqls, ctx \in Contexts : result_get(sql, ctx[1], ctx[2])
    \/ \E sql \in CacheSqls, result \in Results, ctx \in Contexts :
          result_set(sql, result, ctx[1], ctx[2])
    \/ \E sql \in CacheSqls, ctx \in Contexts : result_invalidate(sql, ctx[1], ctx[2])
    \/ result_clear

ResultCacheSpec == Init /\ [][ResultCacheNext]_vars

\* ------------------------------------------------------ SQL helpers, applied
\* the pieces the SQL texts are built of
SqlTokens == { <<"a">>, <<";">>, <<"'">>, <<"\"">>, <<"-", "-">>, <<"/", "*">>, <<"*", "/">>,
               <<"\n">>, <<" ">> }
\* a text has at most MaxTokens of them
MaxTokens == 4

RECURSIVE TokenTexts(_)
TokenTexts(n) ==
    IF n = 0 THEN {<<>>}
    ELSE LET shorter == TokenTexts(n - 1)
         IN  shorter \cup {t \o k : t \in shorter, k \in SqlTokens}

\* longer texts: a semicolon in a literal and after a line comment; a
\* literal that holds a comment marker, before a second statement; literals
\* around a block comment end and around a line end
LongTexts ==
    { <<"a", " ", "'", ";", "'", " ", "-", "-", " ", "a", ";", " ", "a">>,
      <<"'", "-", "-", "'", ";", "a">>,
      <<"'", "/", "*", "'", " ", "*", "/", " ", "'", ";", "'">>,
      <<"'", "-", "-", "'", "\n", "'", ";", "'">>,
      <<"a", ";", " ", "a", " ", "/", "*", ";", "*", "/">> }

SplitTexts == TokenTexts(MaxTokens) \cup LongTexts

CallFrame ==
    UNCHANGED <<svars, rvars, service_ret, mvars, cvars, identities, meta_ret, result_cache,
                result_ret, preflight_ret>>

\* any SQL text, no helper applied yet
SplitInit ==
    /\ BaseInit /\ identities = NoIdentities
    /\ call \in {[NoCall EXCEPT !.sql = sql] : sql \in SplitTexts}

\* _split_sql_statements(sql) is called
apply_split ==
    /\ CallFrame
    /\ call.fn = "none"
    /\ call' = [call EXCEPT !.fn = "split", !.statements = split_sql_statements(call.sql)]

SplitNext == apply_split

SplitSpec == SplitInit /\ [][SplitNext]_vars

\* -------------------------------------------------------- table references
\* str.upper() and the character classes of the patterns
LowerCase == <<"a", "b", "c", "d", "e", "f", "g", "h", "i", "j", "k", "l", "m", "n", "o", "p", "q", "r", "s", "t", "u", "v", "w", "x", "y", "z">>
UpperCase == <<"A", "B", "C", "D", "E", "F", "G", "H", "I", "J", "K", "L", "M", "N", "O", "P", "Q", "R", "S", "T", "U", "V", "W", "X", "Y", "Z">>
UpperChar(c) ==
    IF \E k \in 1..Len(LowerCase) : LowerCase[k] = c
    THEN UpperCase[CHOOSE k \in 1..Len(LowerCase) : LowerCase[k] = c]
    ELSE c
UpperText(s) == [i \in 1..Len(s) |-> UpperChar(s[i])]

\* [A-Za-z_] and [A-Za-z0-9_]
IdStart(c) == c = "_" \/ \E k \in 1..Len(LowerCase) : c \in {LowerCase[k], UpperCase[k]}
IdChar(c) == IdStart(c) \/ c \in {"0", "1", "2", "3", "4", "5", "6", "7", "8", "9"}

\* [A-Za-z_][A-Za-z0-9_]* matched greedily at i: the index of its last
\* character, i - 1 if no identifier starts at i
RECURSIVE IdRun(_, _)
IdRun(s, j) == IF j < Len(s) /\ IdChar(s[j + 1]) THEN IdRun(s, j + 1) ELSE j
IdEnd(s, i) == IF i <= Len(s) /\ IdStart(s[i]) THEN IdRun(s, i) ELSE i - 1

\* (?:FROM|JOIN)\s+ matched at p under re.IGNORECASE: the index of the
\* first character after the whitespace, 0 if there is no match
RECURSIVE SpaceRun(_, _)
SpaceRun(s, j) == IF j < Len(s) /\ s[j + 1] \in Whitespace THEN SpaceRun(s, j + 1) ELSE j
AfterKeyword(s, p) ==
    IF /\ p + 4 <= Len(s)
       /\ UpperText(SubSeq(s, p, p + 3)) \in {<<"F", "R", "O", "M">>, <<"J", "O", "I", "N">>}
       /\ s[p + 4] \in Whitespace
    THEN SpaceRun(s, p + 4) + 1
    ELSE 0

\* no match of a pattern at a position
NoMatch == [end |-> 0, groups |-> <<>>]

HasDot(s, i) == i <= Len(s) /\ s[i] = "."

\* an identifier that must not be followed by a dot, (?!\.): the greedy
\* match, or after backtracking the match without its last character
BeforeNoDot(s, i) ==
    LET e == IdEnd(s, i) IN
    IF e < i THEN i - 1
    ELSE IF ~HasDot(s, e + 1) THEN e
    ELSE IF e > i THEN e - 1
    ELSE i - 1

\* full_pattern (line 90) at p
MatchFull(s, p) ==
    LET a == AfterKeyword(s, p)
        e1 == IdEnd(s, a)
        e2 == IdEnd(s, e1 + 2)
        e3 == IdEnd(s, e2 + 2)
    IN  IF a > 0 /\ e1 >= a /\ HasDot(s, e1 + 1) /\ e2 >= e1 + 2 /\ HasDot(s, e2 + 1)
           /\ e3 >= e2 + 2
        THEN [end |-> e3, groups |-> <<SubSeq(s, a, e1), SubSeq(s, e1 + 2, e2),
                                       SubSeq(s, e2 + 2, e3)>>]
        ELSE NoMatch

\* partial_pattern (line 95) at p
MatchPartial(s, p) ==
    LET a == AfterKeyword(s, p)
        e1 == IdEnd(s, a)
        e2 == BeforeNoDot(s, e1 + 2)
    IN  IF a > 0 /\ e1 >= a /\ HasDot(s, e1 + 1) /\ e2 >= e1 + 2
        THEN [end |-> e2, groups |-> <<SubSeq(s, a, e1), SubSeq(s, e1 + 2, e2)>>]
        ELSE NoMatch

\* bare_pattern (line 103) at p
MatchBare(s, p) ==
    LET a == AfterKeyword(s, p)
        e == BeforeNoDot(s, a)
    IN  IF a > 0 /\ e >= a THEN [end |-> e, groups |-> <<SubSeq(s, a, e)>>] ELSE NoMatch

\* re.finditer: the matches from the left, each search starting where the
\* last match ended
RECURSIVE FindAll(_, _, _)
FindAll(Match(_, _), s, pos) ==
    LET starts == {p \in pos..Len(s) : Match(s, p) # NoMatch}
    IN  IF starts = {} THEN <<>>
        ELSE LET m == Match(s, Min(starts))
             IN  <<m.groups>> \o FindAll(Match, s, m.end + 1)

\* line 104
keywords ==
    { <<"S", "E", "L", "E", "C", "T">>,
      <<"W", "H", "E", "R", "E">>,
      <<"A", "N", "D">>,
      <<"O", "R">>,
      <<"N", "O", "T">>,
      <<"I", "N">>,
      <<"E", "X", "I", "S", "T", "S">>,
      <<"A", "S">>,
      <<"O", "N">>,
      <<"L", "E", "F", "T">>,
      <<"R", "I", "G", "H", "T">>,
      <<"I", "N", "N", "E", "R">>,
      <<"O", "U", "T", "E", "R">>,
      <<"C", "R", "O", "S", "S">> }

\* any(t[2].upper() == table.upper() for t in tables)
Captured(tables, table) ==
    \E i \in 1..Len(tables) : UpperText(tables[i][3]) = UpperText(table)

\* lines 96-100 and 105-108: the matches are added one by one
RECURSIVE AddPartial(_, _)
AddPartial(tables, matches) ==
    IF matches = <<>> THEN tables
    ELSE AddPartial(IF ~Captured(tables, matches[1][2])
                    THEN Append(tables, <<NoName, matches[1][1], matches[1][2]>>)
                    ELSE tables, Tail(matches))

RECURSIVE AddBare(_, _)
AddBare(tables, matches) ==
    IF matches = <<>> THEN tables
    ELSE AddBare(IF UpperText(matches[1][1]) \notin keywords /\ ~Captured(tables, matches[1][1])
                 THEN Append(tables, <<NoName, NoName, matches[1][1]>>)
                 ELSE tables, Tail(matches))

\* _extract_tables_from_sql (lines 78-110): the tuples (database, schema,
\* table), None written NoName
extract_tables_from_sql(sql) ==
    LET clean_sql == RemoveBlockComments(RemoveLineComments(sql))
        full == FindAll(MatchFull, clean_sql, 1)
        partial == AddPartial(full, FindAll(MatchPartial, clean_sql, 1))
    IN  AddBare(partial, FindAll(MatchBare, clean_sql, 1))

\* the names of the table references and the keywords before them
Ids == {<<"d">>, <<"d", "b">>, <<"s">>, <<"s", "c", "h">>, <<"t">>, <<"t", "b", "l">>}
RefKeywords == {<<"F", "R", "O", "M">>, <<"j", "o", "i", "n">>}

\* the dotted name of one, two or three parts
Dotted(parts) ==
    IF Len(parts) = 1 THEN parts[1]
    ELSE IF Len(parts) = 2 THEN parts[1] \o <<".">> \o parts[2]
    ELSE parts[1] \o <<".">> \o parts[2] \o <<".">> \o parts[3]

\* SELECT * FROM <name>, the select list shortened to *
RefText(kw, parts) == <<"*", " ">> \o kw \o <<" ">> \o Dotted(parts)

ExtractTexts ==
    {RefText(kw, <<t>>) : kw \in RefKeywords, t \in Ids}
        \cup {RefText(kw, <<x, t>>) : kw \in RefKeywords, x \in Ids, t \in Ids}
        \cup {RefText(kw, <<d, x, t>>) : kw \in RefKeywords, d \in Ids, x \in Ids, t \in Ids}

\* any SQL text with one table reference
ExtractInit ==
    /\ BaseInit /\ identities = NoIdentities
    /\ call \in {[NoCall EXCEPT !.sql = sql] : sql \in ExtractTexts}

\* _extract_tables_from_sql(sql) is called
apply_extract ==
    /\ CallFrame
    /\ call.fn = "none"
    /\ call' = [call EXCEPT !.fn = "extract", !.tables = extract_tables_from_sql(call.sql)]

ExtractNext == apply_extract

ExtractSpec == ExtractInit /\ [][ExtractNext]_vars

\* --------------------------------------------------------------- preflight
\* lines 305-306: the defaults when neither the request nor the session
\* names a database or a schema
FIELD_METADATA == <<"F", "I", "E", "L", "D", "_", "M", "E", "T", "A", "D", "A", "T", "A">>
PUBLIC == <<"P", "U", "B", "L", "I", "C">>

\* relevance scores in tenths; lines 355 and 366: the least score of a
\* replacement for a missing and for an empty table
MissingThreshold == 6
EmptyThreshold == 5

\* what the warehouse does with DESCRIBE TABLE and SELECT COUNT(*): "ok",
\* "missing" for an error that says 'does not exist' or 'not authorized',
\* "error" for any other error; rows is the count returned
TableState(describe, count, rows) == [describe |-> describe, count |-> count, rows |-> rows]
\* _check_table_exists (lines 113-143): exists, row_count (None written
\* NoCount) and whether error is set
check_table_exists(state) ==
    IF state.describe # "ok"
    THEN [exists |-> FALSE, row_count |-> NoCount, error |-> TRUE]
    ELSE IF state.count = "ok"
    THEN [exists |-> TRUE, row_count |-> state.rows, error |-> FALSE]
    ELSE [exists |-> state.count # "missing", row_count |-> NoCount, error |-> TRUE]

\* what _find_similar_tables (lines 146-206) returns for the tables SHOW
\* TABLES lists: candidates with data, best score first; the scores it
\* gives are 1.0, 0.8, 0.6 and 0.3
Candidate(name, score) == [table_name |-> name, relevance_score |-> score]

\* f"{database}.{schema}.{table}"
Qualified(database, schema, table) == database \o <<".">> \o schema \o <<".">> \o table

\* \b after a name that ends in a word character
WordEnd(s, i) == i > Len(s) \/ ~IdChar(s[i])

\* the text at i is `name`, in any case
NameAt(s, i, name) ==
    i + Len(name) - 1 <= Len(s) /\ UpperText(SubSeq(s, i, i + Len(name) - 1)) = UpperText(name)

\* line 216: (FROM|JOIN)\s+<original>\b at p
MatchOriginal(s, p, original) ==
    LET a == AfterKeyword(s, p) IN
    IF a > 0 /\ NameAt(s, a, original) /\ WordEnd(s, a + Len(original))
    THEN [end |-> a + Len(original) - 1, groups |-> <<SubSeq(s, p, p + 3)>>]
    ELSE NoMatch

\* the part of a dotted name after its last dot
RECURSIVE LastPart(_)
LastPart(name) ==
    IF \E i \in 1..Len(name) : name[i] = "."
    THEN LastPart(SubSeq(name, 1 + Min({i \in 1..Len(name) : name[i] = "."}), Len(name)))
    ELSE name

\* line 217: (FROM|JOIN)\s+<identifier>.<identifier>.<table of original>\b
MatchAnyQualifier(s, p, original) ==
    LET a == AfterKeyword(s, p)
        e1 == IdEnd(s, a)
        e2 == IdEnd(s, e1 + 2)
        table == LastPart(original)
    IN  IF a > 0 /\ e1 >= a /\ HasDot(s, e1 + 1) /\ e2 >= e1 + 2 /\ HasDot(s, e2 + 1)
           /\ NameAt(s, e2 + 2, table) /\ WordEnd(s, e2 + 2 + Len(table))
        THEN [end |-> e2 + 1 + Len(table), groups |-> <<SubSeq(s, p, p + 3)>>]
        ELSE NoMatch

\* re.sub(pattern, r'\1 <replacement>', s) from position pos on
RECURSIVE SubAll(_, _, _, _, _)
SubAll(Match(_, _, _), s, pos, original, replacement) ==
    LET starts == {p \in pos..Len(s) : Match(s, p, original) # NoMatch}
    IN  IF starts = {} THEN SubSeq(s, pos, Len(s))
        ELSE LET p == Min(starts)
                 m == Match(s, p, original)
             IN  SubSeq(s, pos, p - 1) \o m.groups[1] \o <<" ">> \o replacement
                    \o SubAll(Match, s, m.end + 1, original, replacement)

\* _generate_suggested_query (lines 209-223); replacements is the dict as the
\* sequence of its items
RECURSIVE generate_suggested_query(_, _)
generate_suggested_query(original_sql, replacements) ==
    IF replacements = <<>> THEN original_sql
    ELSE LET original == replacements[1][1]
             replacement == replacements[1][2]
             first == SubAll(MatchOriginal, original_sql, 1, original, replacement)
             second == SubAll(MatchAnyQualifier, first, 1, original, replacement)
         IN  generate_suggested_query(second, Tail(replacements))

\* fqn not in replacements
Replaced(replacements, fqn) == \E i \in 1..Len(replacements) : replacements[i][1] = fqn

\* lines 351-356 and 362-367: the first candidate that reaches the
\* threshold becomes the replacement of fqn, unless fqn has one
RECURSIVE AddReplacement(_, _, _, _, _, _)
AddReplacement(replacements, fqn, database, schema, similar, threshold) ==
    IF similar = <<>> THEN replacements
    ELSE AddReplacement(
            IF similar[1].relevance_score >= threshold /\ ~Replaced(replacements, fqn)
            THEN Append(replacements,
                        <<fqn, Qualified(database, schema, similar[1].table_name)>>)
            ELSE replacements,
            fqn, database, schema, Tail(similar), threshold)

\* the loop over the tables (lines 327-367)
RECURSIVE CheckTables(_, _, _, _, _, _, _)
CheckTables(tables, i, states, similars, default_db, default_schema, acc) ==
    IF i > Len(tables) THEN acc
    ELSE LET resolved_db == IF Given(tables[i][1]) THEN tables[i][1] ELSE default_db
             resolved_schema == IF Given(tables[i][2]) THEN tables[i][2] ELSE default_schema
             fqn == Qualified(resolved_db, resolved_schema, tables[i][3])
             check_result == check_table_exists(states[i])
             checked == Append(acc.checks,
                               [fqn |-> fqn, exists |-> check_result.exists,
                                row_count |-> check_result.row_count,
                                error |-> check_result.error])
         IN  CheckTables(tables, i + 1, states, similars, default_db, default_schema,
                IF ~check_result.exists
                THEN [checks |-> checked,
                      issues |-> Append(acc.issues, [fqn |-> fqn, kind |-> "missing"]),
                      replacements |-> AddReplacement(acc.replacements, fqn, resolved_db,
                                          resolved_schema, similars[i], MissingThreshold)]
                ELSE IF check_result.row_count = 0
                THEN [checks |-> checked,
                      issues |-> Append(acc.issues, [fqn |-> fqn, kind |-> "empty"]),
                      replacements |-> AddReplacement(acc.replacements, fqn, resolved_db,
                                          resolved_schema, similars[i], EmptyThreshold)]
                ELSE [acc EXCEPT !.checks = checked])

PreflightFrame ==
    UNCHANGED <<svars, rvars, service_ret, session_ret, cvars, identities, meta_ret,
                result_cache, result_ret, call>>

\* POST /preflight (lines 290-399); the session names no database and no
\* schema; states and similars are what the warehouse answers for each table
preflight_check(hdr, sql, database, schema_name, states, similars) ==
    LET got == get_session_or_none(hdr)
        default_db == IF Given(database) THEN database ELSE FIELD_METADATA
        default_schema == IF Given(schema_name) THEN schema_name ELSE PUBLIC
        tables == extract_tables_from_sql(sql)
        done == CheckTables(tables, 1, states, similars, default_db, default_schema,
                            [checks |-> <<>>, issues |-> <<>>, replacements |-> <<>>])
        ret == [NoPreflight EXCEPT !.op = "preflight", !.sql = sql, !.tables = tables]
    IN  /\ PreflightFrame
        /\ sessions' = got.sessions
        /\ released' = got.released
        /\ preflight_ret' =
              IF ~got.hit THEN [ret EXCEPT !.status = 401, !.tables = <<>>]
              ELSE IF tables = <<>> THEN [ret EXCEPT !.status = 200, !.valid = TRUE]
              ELSE [ret EXCEPT !.status = 200,
                               !.checks = done.checks,
                               !.issues = done.issues,
                               !.replacements = done.replacements,
                               !.suggested_query =
                                  IF done.replacements # <<>>
                                  THEN generate_suggested_query(sql, done.replacements)
                                  ELSE NoName,
                               !.valid = (done.issues = <<>>)]

\* what the warehouse answers for one table: its state and the similar
\* tables, which are asked for only when the table is missing or empty
Answers ==
    { <<TableState("ok", "ok", 2), <<>>>>,
      <<TableState("ok", "ok", 0), <<Candidate(<<"n">>, 8)>>>>,
      <<TableState("missing", "ok", 0), <<Candidate(<<"n">>, 8)>>>>,
      <<TableState("missing", "ok", 0), <<Candidate(<<"n">>, 3)>>>>,
      <<TableState("error", "ok", 0), <<>>>>,
      <<TableState("ok", "error", 0), <<>>>> }

\* the queries checked: one table named bare, with a schema, and with a
\* database and a schema, after FROM and after JOIN; two tables; none
PreflightTexts ==
    { RefText(<<"F", "R", "O", "M">>, <<<<"t", "b", "l">>>>),
      RefText(<<"F", "R", "O", "M">>, <<<<"s">>, <<"t", "b", "l">>>>),
      RefText(<<"f", "r", "o", "m">>, <<<<"d">>, <<"s">>, <<"t", "b", "l">>>>),
      RefText(<<"j", "o", "i", "n">>, <<<<"t">>>>),
      RefText(<<"j", "o", "i", "n">>, <<<<"s">>, <<"t">>>>),
      RefText(<<"F", "R", "O", "M">>, <<<<"t", "b", "l">>>>) \o <<" ">>
         \o <<"J", "O", "I", "N">> \o <<" ">> \o Dotted(<<<<"d">>, <<"s">>, <<"t">>>>),
      <<"*">> }

\* a session checks queries before it runs them
PreflightNext ==
    \/ create_session("s1")
    \/ \E sql \in PreflightTexts, database \in {NoName, <<"d">>} :
          \E answers \in [1..Len(extract_tables_from_sql(sql)) -> Answers] :
             preflight_check("s1", sql, database, NoName,
                             [i \in DOMAIN answers |-> answers[i][1]],
                             [i \in DOMAIN answers |-> answers[i][2]])

PreflightSpec == Init /\ [][PreflightNext]_vars

\* ------------------------------------------------------ identifier quoting
\* what a call of an identifier function gives: the text returned, or
\* raised when it ends in ValueError
Returned(text) == [raised |-> FALSE, text |-> text]
RaisedValueError == [raised |-> TRUE, text |-> <<>>]

\* name.replace('"', '""')
RECURSIVE DoubleQuotes(_)
DoubleQuotes(name) ==
    IF name = <<>> THEN <<>>
    ELSE (IF name[1] = "\"" THEN <<"\"", "\"">> ELSE <<name[1]>>) \o DoubleQuotes(Tail(name))

\* '"' + name.replace('"', '""') + '"'
Wrapped(name) == <<"\"">> \o DoubleQuotes(name) \o <<"\"">>

\* '.'.join(f'"{part}"' for part in name.split('.'))
RECURSIVE QuoteParts(_)
QuoteParts(name) ==
    LET dots == {i \in 1..Len(name) : name[i] = "."}
    IN  IF dots = {} THEN <<"\"">> \o name \o <<"\"">>
        ELSE LET d == Min(dots)
             IN  <<"\"">> \o SubSeq(name, 1, d - 1) \o <<"\"", ".">>
                    \o QuoteParts(SubSeq(name, d + 1, Len(name)))

\* SnowflakeService._validate_identifier (snowflake.py lines 29-57)
service_validate_identifier(name) ==
    IF validate_identifier_ok(name) THEN Returned(QuoteParts(name)) ELSE RaisedValueError

\* re.match(r'^"[^"]*"$', name)
AlreadyQuoted(name) ==
    LET body == IF Len(name) > 0 /\ name[Len(name)] = "\n"
                THEN SubSeq(name, 1, Len(name) - 1) ELSE name
    IN  /\ Len(body) >= 2
        /\ body[1] = "\"" /\ body[Len(body)] = "\""
        /\ \A i \in 2..(Len(body) - 1) : body[i] # "\""

\* _validate_identifier of the metadata router (metadata.py lines 34-40)
metadata_validate_identifier(name) ==
    IF (name = <<>> \/ ~MatchesPart(name)) /\ ~AlreadyQuoted(name)
    THEN Returned(Wrapped(name))
    ELSE Returned(name)

\* _quote_identifier of the pivots router (pivots.py lines 28-33)
quote_identifier(name) ==
    IF name = <<>> THEN Returned(name)
    ELSE IF MatchesPart(name) THEN Returned(name)
    ELSE Returned(Wrapped(name))

\* identifier.strip('"')
RECURSIVE StripQuotes(_)
StripQuotes(name) ==
    IF name # <<>> /\ name[1] = "\"" THEN StripQuotes(Tail(name))
    ELSE IF name # <<>> /\ name[Len(name)] = "\""
    THEN StripQuotes(SubSeq(name, 1, Len(name) - 1))
    ELSE name

\* _validate_identifier of the tenant configuration (mdlh_tenant_config.py
\* lines 528-533)
tenant_validate_identifier(name) == Returned(<<"\"">> \o StripQuotes(name) \o <<"\"">>)

\* the implementations of the layer
QuoteFns == {"service", "metadata", "pivots", "tenant"}

Quoted(fn, name) ==
    CASE fn = "service" -> service_validate_identifier(name)
      [] fn = "metadata" -> metadata_validate_identifier(name)
      [] fn = "pivots" -> quote_identifier(name)
      [] fn = "tenant" -> tenant_validate_identifier(name)

\* the characters of the names tried and the longest name
NameChars == {"a", "1", "$", "\"", ";", "-", "/", "*", "."}
MaxNameLen == 3

RECURSIVE NamesUpTo(_)
NamesUpTo(n) ==
    IF n = 0 THEN {<<>>}
    ELSE LET shorter == NamesUpTo(n - 1)
         IN  shorter \cup {t \o <<c>> : t \in shorter, c \in NameChars}

\* names of letters only that hold the word DROP, and one that does not
WordNames == { <<"d", "r", "o", "p">>, <<"D", "R", "O", "P">>,
               <<"b", "a", "d", "r", "o", "p">>, <<"d", "b", ".", "D", "r", "o", "p", "s">>,
               <<"d", "o", "r", "p">> }

QuoteNames == NamesUpTo(MaxNameLen) \cup WordNames

\* any name, no function applied yet
QuoteInit ==
    /\ BaseInit /\ identities = NoIdentities
    /\ call \in {[NoCall EXCEPT !.name = name] : name \in QuoteNames}

\* one implementation is called with the name
apply_quote(fn) ==
    /\ CallFrame
    /\ call.fn = "none"
    /\ call' = [call EXCEPT !.fn = fn, !.raised = Quoted(fn, call.name).raised,
                            !.text = Quoted(fn, call.name).text]

QuoteNext == \E fn \in QuoteFns : apply_quote(fn)

QuoteSpec == QuoteInit /\ [][QuoteNext]_vars

\* ----------------------------------------------------- generated statements
\* A statement is its keywords as one string, then the characters of the
\* names put into it. call.name is the database a caller names.

\* snowflake.py lines 535-537: USE DATABASE of execute_query; nothing is
\* sent when the name is rejected
use_database_statement(database) ==
    LET safe_database == service_validate_identifier(database)
    IN  IF safe_database.raised THEN <<>>
        ELSE <<<<"USE DATABASE ">> \o safe_database.text>>

\* metadata.py lines 179-182: SHOW SCHEMAS of list_schemas
show_schemas_statement(database) ==
    <<<<"SHOW SCHEMAS IN DATABASE ">> \o metadata_validate_identifier(database).text>>

\* f'"{database}"."{schema}"."{table}"' (query.py line 124)
Fqn(database, schema, table) ==
    <<"\"">> \o database \o <<"\"", ".", "\"">> \o schema \o <<"\"", ".", "\"">>
       \o table \o <<"\"">>

\* query.py lines 124-131: DESCRIBE TABLE and SELECT COUNT(*) of
\* _check_table_exists
check_statements(database, schema, table) ==
    << <<"DESCRIBE TABLE ">> \o Fqn(database, schema, table),
       <<"SELECT COUNT(*) FROM ">> \o Fqn(database, schema, table) \o <<" LIMIT 1">> >>

\* query.py line 152: SHOW TABLES of _find_similar_tables
show_tables_statement(database, schema) ==
    <<<<"SHOW TABLES IN ">> \o <<"\"">> \o database \o <<"\"", ".", "\"">> \o schema
         \o <<"\"">>>>

\* the table of the query that preflight checks
CheckedTable == <<"t">>

\* execute_query with the database of the request
generate_use ==
    /\ CallFrame
    /\ call.fn = "none" /\ Given(call.name)
    /\ call' = [call EXCEPT !.fn = "use",
                            !.raised = service_validate_identifier(call.name).raised,
                            !.statements = use_database_statement(call.name)]

\* list_schemas of the database
generate_show_schemas ==
    /\ CallFrame
    /\ call.fn = "none"
    /\ call' = [call EXCEPT !.fn = "show_schemas",
                            !.statements = show_schemas_statement(call.name)]

\* preflight_check with the database of the request (query.py lines 305,
\* 329-334) for a table named bare: the table is checked
generate_check ==
    /\ CallFrame
    /\ call.fn = "none"
    /\ call' = [call EXCEPT !.fn = "check",
                            !.statements =
                               check_statements(IF Given(call.name) THEN call.name
                                                ELSE FIELD_METADATA, PUBLIC, CheckedTable)]

\* preflight_check, the table is missing: similar tables are looked for
generate_show_tables ==
    /\ CallFrame
    /\ call.fn = "none"
    /\ call' = [call EXCEPT !.fn = "show_tables",
                            !.statements =
                               show_tables_statement(IF Given(call.name) THEN call.name
                                                     ELSE FIELD_METADATA, PUBLIC)]

GenerateNext ==
    \/ generate_use
    \/ generate_show_schemas
    \/ generate_check
    \/ generate_show_tables

GenerateSpec == QuoteInit /\ [][GenerateNext]_vars

\* ------------------------------------------------------------------ claims

(* C1: once the status of a QueryResult of SnowflakeService is SUCCESS,
   FAILED or CANCELLED it never changes again, whatever the interleaving of
   the completion of execute_query with cancel_query; RUNNING is left only
   for SUCCESS, FAILED or CANCELLED. *)
C1_TerminalStatusIsFinal ==
    [][\A q \in DOMAIN query_results :
          q \in DOMAIN query_results' =>
            /\ query_results[q].status \in Terminal =>
                 query_results'[q].status = query_results[q].status
            /\ query_results[q].status = RUNNING =>
                 query_results'[q].status \in {RUNNING} \cup Terminal]_vars

(* C2: cancel of a query that is SUCCESS, FAILED or CANCELLED is rejected and
   leaves the store unchanged; cancel of a RUNNING query makes it CANCELLED
   and records completed_at; cancel of an unknown id reports not found; a
   query that has left RUNNING never is RUNNING again and an id that has left
   the store never comes back, so RUNNING -> CANCELLED happens at most once
   per query. *)
C2_CancelStateMachine ==
    [][/\ \A q \in QIds, ro \in RemoteOutcomes :
            cancel_query(q, ro) =>
              IF q \notin DOMAIN query_results
              THEN cancel_ret' = "Query not found" /\ query_results' = query_results
              ELSE IF query_results[q].status \in Terminal
              THEN cancel_ret' = "Query is not running" /\ query_results' = query_results
              ELSE /\ query_results[q].status = RUNNING
                   /\ cancel_ret' = "ok"
                   /\ DOMAIN query_results' = DOMAIN query_results
                   /\ query_results'[q].status = CANCELLED
                   /\ query_results'[q].completed_at = now
                   /\ \A p \in DOMAIN query_results \ {q} :
                        query_results'[p] = query_results[p]
       /\ \A q \in QIds :
            /\ (q \in DOMAIN query_results /\ query_results[q].status # RUNNING
                  /\ q \in DOMAIN query_results') => query_results'[q].status # RUNNING
            /\ (q < next_qid /\ q \notin DOMAIN query_results) =>
                  q \notin DOMAIN query_results']_vars

\* C2 witness: a RUNNING query was cancelled and a later cancel was rejected
C2_Witness ==
    /\ cancel_ret = "Query is not running"
    /\ \E q \in DOMAIN query_results : query_results[q].status = CANCELLED

(* C3: execute_query never raises, and when it is about to return its query
   id the QueryResult of that id is in the store, whatever cancel_query and
   the eviction runs of other execute_query calls do in between. *)
C3_ExecuteNeverRaises ==
    \A t \in Threads :
        /\ pc[t] # "raised"
        /\ pc[t] = "return" => cur[t].qid \in DOMAIN query_results

\* a context identifier of the request is given and invalid
AnyInvalid(req) ==
    \E name \in {req.warehouse, req.database, req.schema} :
        Given(name) /\ ~validate_identifier_ok(name)

(* C4: when a warehouse call of execute fails (cursor creation, context
   switch or the user SQL), the QueryResult of the returned id ends FAILED
   with error_message equal to the warehouse error text, a completion time
   and no rows, and the failure is not raised. *)
C4_WarehouseFailureIsFailedResult ==
    \A t \in Threads :
        /\ (pc[t] \in {"except", "return"} /\ cur[t].wh_err # "") =>
              cur[t].qid \in DOMAIN query_results
        /\ (pc[t] = "return" /\ cur[t].wh_err # "") =>
              LET r == query_results[cur[t].qid] IN
              /\ r.status = FAILED
              /\ r.error_message = <<cur[t].wh_err>>
              /\ r.completed_at # NoTime
              /\ r.rows = <<>>

(* C6: in execute, no USE statement and no user SQL reaches the warehouse
   when one of the warehouse, database and schema identifiers is invalid. *)
C6_InvalidIdentifierBeforeAnyCall ==
    \A t \in Threads : AnyInvalid(cur[t].req) => cur[t].calls = {}

(* C5: execute with empty or whitespace-only SQL fails at once with the
   empty-query error: no query id is generated, no QueryResult is stored and
   no warehouse call is made.  Here for SnowflakeService.execute_query. *)
C5_ServiceBlankSqlRejected ==
    \A t \in Threads :
        (pc[t] \notin Outside /\ Strip(cur[t].req.sql) = <<>>) =>
            /\ cur[t].qid = 0
            /\ cur[t].calls = {}

(* C5 for POST /api/query/execute: a request with empty or whitespace-only
   SQL is answered 400 "SQL query cannot be empty" whatever the session
   header is, and the step generates no query id, stores no result, makes no
   warehouse call and writes no history record. *)
C5_RouterBlankSqlRejected ==
    [][(last_request'.op = "execute" /\ Strip(last_request'.sql) = <<>>) =>
          /\ resp'.op = "execute" /\ resp'.code = 400
          /\ resp'.message = <<"SQL query cannot be empty">>
          /\ resp'.qid = 0
          /\ router_next_qid' = router_next_qid
          /\ session_results' = session_results
          /\ wh_executes' = wh_executes
          /\ history' = history]_vars

\* the entry stored for the last request of the router
LastEntry == session_results[last_request.hdr][resp.qid]

\* the last i with rss[i] non-empty, or 0
LastNonEmpty(rss) ==
    IF \E i \in 1..Len(rss) : rss[i].rows # <<>>
    THEN CHOOSE i \in 1..Len(rss) :
           rss[i].rows # <<>> /\ \A j \in (i + 1)..Len(rss) : rss[j].rows = <<>>
    ELSE 0

\* the last request was a script that ran in a live session, each statement
\* yielding a result set
ScriptRan ==
    /\ last_request.op = "execute"
    /\ SessionFound(last_request.hdr)
    /\ count_statements(last_request.sql) > 1
    /\ last_request.fail = "none"
    /\ \A i \in 1..Len(last_request.rss) : last_request.rss[i].desc

(* C7: for a multi-statement script whose statements yield result sets
   r1..rn, the stored columns and rows are those of the last statement whose
   result set is non-empty, and those of the final statement when no result
   set is non-empty. *)
C7_LastNonEmptyResultSet ==
    ScriptRan =>
        LET rss == last_request.rss
            k == IF LastNonEmpty(rss) = 0 THEN Len(rss) ELSE LastNonEmpty(rss)
        IN  /\ resp.code = 200 /\ resp.status = SUCCESS
            /\ LastEntry.status = SUCCESS
            /\ LastEntry.columns = rss[k].cols
            /\ LastEntry.rows = rss[k].rows

\* C7 witness: the first statement of a script returned rows, the later ones
\* returned none, and the rows of the first are stored
C7_Witness ==
    /\ ScriptRan
    /\ last_request.rss[1].rows # <<>>
    /\ \A i \in 2..Len(last_request.rss) : last_request.rss[i].rows = <<>>
    /\ LastEntry.columns = <<1>>
    /\ LastEntry.rows = last_request.rss[1].rows

(* C8: a script of two statements, CREATE TABLE x and SELECT * FROM x, stores
   the result set of the SELECT whatever rows the two return. *)
C8_SelectAlwaysStored ==
    (ScriptRan /\ Len(last_request.rss) = 2) =>
        /\ LastEntry.columns = last_request.rss[2].cols
        /\ LastEntry.rows = last_request.rss[2].rows

(* C9: the number of rows stored for an execute is at most the row limit of
   the request, or 10000 when the request gives none.  Here for
   SnowflakeService.execute_query. *)
C9_ServiceRowsWithinLimit ==
    \A t \in Threads :
        (pc[t] = "return" /\ cur[t].qid \in DOMAIN query_results) =>
            Len(query_results[cur[t].qid].rows) <= EffectiveLimit(cur[t].req.limit)

(* C9 for POST /api/query/execute: the rows stored for a request are at most
   its limit, or 10000 when it gives none. *)
C9_StoredRowsWithinLimit ==
    (last_request.op = "execute" /\ SessionFound(last_request.hdr)
       /\ last_request.fail = "none" /\ ~BlankSql(last_request.sql)) =>
        Len(LastEntry.rows) <= EffectiveLimit(last_request.limit)

(* C10: reading pages 1, 2, ... of a SUCCESS result of N rows with page size
   P >= 1: after page k the slices read so far are the first min(k*P, N) rows
   in order, has_more of page k is true exactly when k*P < N, total_rows is
   N, and the slices of all pages together are the N rows. *)
C10_PagesRebuildRows ==
    reader # NoReader =>
        LET rows == session_results[reader.handle][reader.qid].rows
            N == Len(rows)
            k == reader.next - 1
            P == reader.page_size
        IN  /\ reader.acc = Take(rows, IF k * P < N THEN k * P ELSE N)
            /\ reader.has_more = (k * P < N)
            /\ reader.total_rows = N
            /\ ~reader.has_more => reader.acc = rows

\* C10 witness: a result of at least three rows was read in at least two
\* pages up to the last page
C10_Witness ==
    /\ reader # NoReader
    /\ ~reader.has_more
    /\ reader.next >= 3
    /\ Len(reader.acc) >= 3

(* C11: a read of the results hands out a row page only for a query whose
   stored status is SUCCESS. SnowflakeService.get_query_results returns None
   for every other status; the results endpoint answers a FAILED query with
   "Query failed: " and the stored error, a RUNNING one with 202, and any
   query it answers with a page is SUCCESS. In both stores an entry that
   holds rows has status SUCCESS. *)
C11_RowPageOnlyOnSuccess ==
    /\ \A q \in DOMAIN query_results :
          /\ query_results[q].rows # <<>> => query_results[q].status = SUCCESS
          /\ \A page \in Pages, page_size \in PageSizes :
                LET ret == ServiceResults(query_results, q, page, page_size) IN
                query_results[q].status # SUCCESS => ret.none /\ ret.rows = <<>>
    /\ \A h \in Handles : \A q \in DOMAIN session_results[h] :
          LET result == session_results[h][q] IN
          /\ result.rows # <<>> => result.status = SUCCESS
          /\ SessionFound(h) =>
                \A page \in Pages, page_size \in PageSizes :
                   LET r == ResultsResponse(h, q, page, page_size) IN
                   /\ r.code = 200 <=> result.status = SUCCESS
                   /\ result.status # SUCCESS =>
                         /\ r.rows = <<>>
                         /\ \/ r.code = 202
                            \/ /\ r.code = 400
                               /\ r.message = <<"Query failed: ">> \o result.error_message

\* the entry the last read of the endpoint was about
LastReadEntry == session_results[last_request.hdr][last_request.qid]

\* the endpoint has answered a read of a FAILED query with its stored error
C11_Witness ==
    /\ resp.op = "results" /\ resp.code = 400
    /\ SessionFound(last_request.hdr)
    /\ last_request.qid \in DOMAIN session_results[last_request.hdr]
    /\ LastReadEntry.status = FAILED
    /\ LastReadEntry.error_message # NoMsg
    /\ resp.message = <<"Query failed: ">> \o LastReadEntry.error_message

(* C12: when a call of execute_query has returned and every stored
   QueryResult is terminal, the store holds at most MAX_QUERY_RESULTS
   entries. *)
C12_StoreWithinCapAtReturn ==
    /\ pc["t1"] = "returned"
    /\ \A q \in DOMAIN query_results : query_results[q].status \in Terminal
    => Cardinality(DOMAIN query_results) <= MAX_QUERY_RESULTS

(* C13: a query id issued by execute under session A is known only with
   A's handle: with A's live handle status and results do not answer 404,
   with the handle of any other live session status, results and cancel all
   answer 404, and cancel changes a stored result only in the session whose
   handle it carries. *)
C13_QueryIdsAreSessionScoped ==
    /\ \A a \in Handles : \A q \in DOMAIN session_results[a] :
          /\ SessionFound(a) =>
                /\ StatusResponse(a, q).code = 200
                /\ ResultsResponse(a, q, 1, 1).code # 404
          /\ \A b \in Handles \ {a} :
                SessionFound(b) =>
                   /\ StatusResponse(b, q).code = 404
                   /\ ResultsResponse(b, q, 1, 1).code = 404
    /\ last_request.op = "cancel" /\ SessionFound(last_request.hdr) =>
          resp.code = 404 <=> resp.qid \notin DOMAIN session_results[last_request.hdr]

\* session s2 asked for the status of a query that live session s1 holds
\* and was told 404
C13_Witness ==
    /\ last_request.op = "status" /\ last_request.hdr = "s2"
    /\ SessionFound("s1") /\ SessionFound("s2")
    /\ last_request.qid \in DOMAIN session_results["s1"]
    /\ resp.code = 404

(* C14: a session that has been idle for longer than the idle TTL is
   never returned by get: the status endpoint answers not valid and
   _get_session_or_401 raises. Whatever the order of lookups, disconnects and
   sweeps, the connection of a session is released exactly once when the
   session leaves the map, and not at all while it is in it. *)
C14_ExpiredNeverReturnedReleasedOnce ==
    /\ session_ret.op \in {"status", "require"} /\ session_ret.idle > IdleTtl =>
          ~session_ret.valid
    /\ \A h \in Handles :
          /\ IdleExpired(sessions[h], now) => ~get_session(sessions, released, h, now).hit
          /\ released[h] = IF sessions[h].state \in Gone THEN 1 ELSE 0

\* the status endpoint was asked about an ACTIVE session idle for longer than
\* the TTL: it answered not valid and the connection has been released once
C14_Witness ==
    /\ session_ret.op = "status" /\ session_ret.hdr \in Handles
    /\ session_ret.before[session_ret.hdr].state = "ACTIVE"
    /\ session_ret.idle > IdleTtl
    /\ ~session_ret.valid
    /\ sessions[session_ret.hdr].state = "EXPIRED_IDLE"
    /\ released[session_ret.hdr] = 1

(* C15: disconnect answers disconnected exactly when remove found a session
   with the handle; that session is then deleted and its connection released
   once. A removed session is a miss for get, and removing it again answers
   not disconnected and releases nothing. The sessions of other handles and
   their connections are left as they were. *)
C15_RemoveOnceOnly ==
    /\ session_ret.op = "disconnect" /\ session_ret.hdr \in Handles =>
          LET h == session_ret.hdr IN
          /\ session_ret.valid <=> session_ret.before[h].state = "ACTIVE"
          /\ session_ret.valid =>
                /\ sessions[h].state = "CLOSED"
                /\ released[h] = session_ret.released_before[h] + 1
          /\ ~session_ret.valid =>
                /\ sessions[h] = session_ret.before[h]
                /\ released[h] = session_ret.released_before[h]
          /\ \A g \in Handles \ {h} :
                /\ sessions[g] = session_ret.before[g]
                /\ released[g] = session_ret.released_before[g]
    /\ session_ret.op \in {"status", "require"} /\ session_ret.hdr \in Handles
       /\ session_ret.before[session_ret.hdr].state = "CLOSED" => ~session_ret.valid
    /\ \A h \in Handles :
          sessions[h].state = "CLOSED" =>
             /\ ~get_session(sessions, released, h, now).hit
             /\ ~remove_session(sessions, released, h).hit
             /\ released[h] = 1

\* a disconnect of a session that an earlier disconnect had closed: it
\* answered not disconnected and the connection stays released once
C15_Witness ==
    /\ session_ret.op = "disconnect" /\ session_ret.hdr \in Handles
    /\ session_ret.before[session_ret.hdr].state = "CLOSED"
    /\ ~session_ret.valid
    /\ released[session_ret.hdr] = 1
    /\ \E g \in Handles \ {session_ret.hdr} : sessions[g].state = "ACTIVE"

(* C16: in every category, a value that set stored under a scope is never
   returned by get under a scope with a different identity string: a get
   under scope S2 that hits returns a value written under S2 for the same
   arguments, or a value written without a scope. *)
C16_ScopesNeverShareEntries ==
    /\ cache_ret.op = "get" /\ cache_ret.hit /\ cache_ret.scope # Unscoped
       /\ cache_ret.data.scope # Unscoped =>
          /\ cache_ret.data.scope = cache_ret.scope
          /\ cache_ret.data.args = cache_ret.args
    /\ \A c \in Categories, S2 \in Scopes \ {Unscoped} : \A args \in ArgsOf(c) :
          LET key == KeyOf(c, S2, args) IN
          Live(cache[c], key, cache_time) =>
             \/ cache[c][key].data.scope = S2
             \/ c = "databases" /\ S2 = "all" /\ cache[c][key].data.scope = Unscoped

\* a get under scope B missed although the same category holds a value for
\* the same arguments under scope A
C16_Witness ==
    /\ cache_ret.op = "get" /\ cache_ret.scope = "B" /\ ~cache_ret.hit
    /\ cache_ret.category \in Categories
    /\ Live(cache[cache_ret.category], KeyOf(cache_ret.category, "A", cache_ret.args),
            cache_time)

(* C17: two sessions that differ in account, user, role or warehouse are
   given different cache scopes by _cache_scope. *)
C17_DistinctIdentitiesDistinctScopes ==
    identities.scopes # <<>> /\ identities.first # identities.second =>
       identities.scopes[1] # identities.scopes[2]

\* the value was written under the scope and for the arguments given, as far
\* as they are given
Matches(data, scope, args) ==
    /\ data.scope = scope
    /\ \A i \in DOMAIN args : args[i] # NoArg => data.args[i] = args[i]

\* the entries of the step's first state that satisfy Other are in its
\* second state as they were
Kept(Other(_, _)) ==
    \A c \in Categories : \A k \in DOMAIN cache[c] :
       Other(c, k) => k \in DOMAIN cache'[c] /\ cache'[c][k] = cache[c][k]

(* C18: clear_schemas, clear_tables, clear_columns or clear_capabilities
   called with a scope and with some or all of database, schema and table
   removes only entries of its category that were written under that scope
   for those names; every other entry stays. *)
C18_KeyedClearLeavesOthers ==
    [][/\ cache_ret'.op = "clear"
       /\ cache_ret'.category # "databases"
       /\ cache_ret'.scope # Unscoped
       /\ \E i \in DOMAIN cache_ret'.args : cache_ret'.args[i] # NoArg
       => LET Other(c, k) == \/ c # cache_ret'.category
                             \/ ~Matches(cache[c][k].data, cache_ret'.scope, cache_ret'.args)
          IN  Kept(Other)]_vars

(* C19: a clear of a category with a scope and no database, schema or
   table, and a refresh by a session, remove no entry that was written under
   another scope. *)
C19_ScopedClearLeavesOtherScopes ==
    [][\/ /\ cache_ret'.op = "clear"
          /\ cache_ret'.category # "databases"
          /\ cache_ret'.scope # Unscoped
          /\ \A i \in DOMAIN cache_ret'.args : cache_ret'.args[i] = NoArg
       \/ cache_ret'.op = "refresh"
       => LET Other(c, k) == cache[c][k].data.scope # cache_ret'.scope
          IN  Kept(Other)]_vars

(* C20: a value written at time t into a category with TTL T is not
   returned by get at any time from t + T on, however often it was read in
   between: reads leave the expiry time at t + T. Each entry expires by the
   TTL of its own category. *)
C20_NeverReturnedAfterTtl ==
    /\ cache_ret.op = "get" /\ cache_ret.hit =>
          cache_ret.at < cache_ret.data.set_at + Ttl(cache_ret.category)
    /\ \A c \in Categories : \A k \in DOMAIN cache[c] :
          /\ cache[c][k].expires = cache[c][k].data.set_at + Ttl(c)
          /\ Live(cache[c], k, cache_time) =>
                cache_time < cache[c][k].data.set_at + Ttl(c)

\* a get of the tables entry written 120 seconds earlier has just missed
\* while the columns entry written at the same time is still handed out
C20_Witness ==
    /\ cache_ret.op = "get" /\ cache_ret.category = "tables" /\ ~cache_ret.hit
    /\ cache_ret.at = cache_time
    /\ \E k \in DOMAIN cache["tables"] :
          cache_time = cache["tables"][k].data.set_at + cache_ttl_tables
    /\ \E k \in DOMAIN cache["columns"] :
          /\ Live(cache["columns"], k, cache_time)
          /\ cache_time >= cache["columns"][k].data.set_at + cache_ttl_tables

\* C21: a metadata read called with refresh does not consult the cache and
\* queries the warehouse even when a live entry exists; when the query
\* succeeds, the fresh list is the cached entry of the caller's scope and
\* key, and the next read of it without refresh returns the fresh list.
C21_RefreshWritesThrough ==
    [][/\ (meta_ret' # meta_ret /\ meta_ret'.found /\ meta_ret'.refresh) =>
             /\ ~meta_ret'.consulted /\ meta_ret'.queried
             /\ meta_ret'.error = None =>
                   LET c == meta_ret'.op
                       key == KeyOf(c, meta_ret'.scope, meta_ret'.args)
                   IN  /\ Live(cache'[c], key, cache_time')
                       /\ cache'[c][key].data.list = meta_ret'.body
       /\ (/\ meta_ret.found /\ meta_ret.refresh /\ meta_ret.error = None
           /\ meta_ret'.found /\ ~meta_ret'.refresh
           /\ meta_ret'.op = meta_ret.op /\ meta_ret'.scope = meta_ret.scope
           /\ meta_ret'.args = meta_ret.args) => meta_ret'.body = meta_ret.body]_vars

\* C24: when a metadata listing (databases, schemas, tables, columns) hits
\* a warehouse error, a permission or not-found error yields the empty
\* list, a connectivity or timeout error yields a 503 response, no error
\* yields any other status, and the metadata cache is left as it was.
C24_ListingErrorsHandled ==
    [][(meta_ret' # meta_ret /\ meta_ret'.op \in ListEndpoints /\ meta_ret'.error # None) =>
          /\ cache' = cache
          /\ meta_ret'.error \in PermissionErrors =>
                meta_ret'.status = 200 /\ meta_ret'.body = <<>>
          /\ meta_ret'.error \in NetworkErrors => meta_ret'.status = 503
          /\ meta_ret'.status \in {200, 503}]_vars

\* C24 witness: a listing failed with a network error and was answered with
\* 503 while the cache held an entry
C24_Witness ==
    /\ meta_ret.op \in ListEndpoints /\ meta_ret.error \in NetworkErrors
    /\ meta_ret.status = 503 /\ TotalEntries(cache) > 0

\* C25: every operation that needs a session answers a missing, unknown or
\* expired handle with an authentication failure (401), never with a
\* successful response: the session lookup of the query endpoints, and the
\* metadata endpoints databases, schemas, tables, columns, capabilities and
\* refresh.
C25_NoSessionIsUnauthorized ==
    /\ (session_ret.op = "require"
        /\ (session_ret.hdr \notin Handles
            \/ session_ret.before[session_ret.hdr].state # "ACTIVE")) => ~session_ret.valid
    /\ (meta_ret.op # "none" /\ ~meta_ret.found) => meta_ret.status = 401

\* the characters of a text that are no whitespace
IsInk(ch) == ch \notin Whitespace
Inked(s) == SelectSeq(s, IsInk)

\* the places between two such characters where the text has whitespace
Gaps(s) ==
    {k \in 1..(Len(Inked(s)) - 1) :
        \E i \in 1..Len(s) : s[i] \in Whitespace /\ Len(Inked(SubSeq(s, 1, i))) = k}

\* two texts that differ only in letter case and in the length and kind of
\* their runs of whitespace, leading and trailing whitespace included
SameQuery(s1, s2) == Upper(Inked(s1)) = Upper(Inked(s2)) /\ Gaps(s1) = Gaps(s2)

\* C22: after set(sql1, r, db, sch) of a result that is cached, get(sql2, db,
\* sch) returns the entry of r whenever sql2 differs from sql1 only in
\* letter case and whitespace runs; a get with another database or schema,
\* or with a text that differs otherwise, is a miss when the cache holds
\* nothing else.
C22_HitsUpToCaseAndSpace ==
    [][(result_ret.op = "set" /\ result_ret.result.size <= MaxResultBytes
        /\ result_ret'.op = "get") =>
          IF /\ SameQuery(result_ret.sql, result_ret'.sql)
             /\ result_ret'.database = result_ret.database
             /\ result_ret'.schema = result_ret.schema
          THEN /\ result_ret'.hit
               /\ result_ret'.result = [result_ret.result EXCEPT !.cached = TRUE]
          ELSE Cardinality(DOMAIN result_cache.entries) = 1 => ~result_ret'.hit]_vars

\* C22 witness: a get whose text is not in normal form returned an entry
C22_Witness ==
    /\ result_ret.op = "get" /\ result_ret.hit
    /\ result_ret.sql = <<"A", " ", "\n", "B">>
    /\ <<<<"a", " ", "b">>, result_ret.database, result_ret.schema>>
          \in DOMAIN result_cache.entries

\* C23: a set of a result whose size estimate exceeds 5 MB stores nothing,
\* the entries and the hit and miss counters stay as they were, and a
\* following get does not return that result.
C23_OversizeNotCached ==
    [][/\ (result_ret'.op = "set" /\ result_ret'.result.size > MaxResultBytes) =>
             result_cache' = result_cache
       /\ (result_ret.op = "set" /\ result_ret.result.size > MaxResultBytes
           /\ result_ret'.op = "get") => result_ret'.result.rows # result_ret.result.rows]_vars

\* C23 witness: an oversize result was set for a key that has an entry
C23_Witness ==
    /\ result_ret.op = "set" /\ result_ret.result.size > MaxResultBytes
    /\ query_make_key(result_ret.sql, result_ret.database, result_ret.schema)
          \in DOMAIN result_cache.entries

\* What every character of a SQL text is, read from the left: "com" in a
\* line comment (-- to the end of the line) or a closed block comment,
\* "str" in a literal and for its quotes, "semi" for a semicolon outside
\* both, "sql" for the rest. A doubled quote closes and reopens the literal.
RECURSIVE Kinds(_, _, _)
Kinds(s, i, mode) ==
    IF i > Len(s) THEN <<>>
    ELSE IF mode = "sql"
    THEN LET closes == {j \in (i + 2)..(Len(s) - 1) : s[j] = "*" /\ s[j + 1] = "/"}
         IN  IF i < Len(s) /\ s[i] = "-" /\ s[i + 1] = "-"
             THEN <<"com", "com">> \o Kinds(s, i + 2, "line")
             ELSE IF i < Len(s) /\ s[i] = "/" /\ s[i + 1] = "*" /\ closes # {}
             THEN [k \in 1..(Min(closes) + 2 - i) |-> "com"] \o Kinds(s, Min(closes) + 2, "sql")
             ELSE IF s[i] \in {"'", "\""} THEN <<"str">> \o Kinds(s, i + 1, s[i])
             ELSE IF s[i] = ";" THEN <<"semi">> \o Kinds(s, i + 1, "sql")
             ELSE <<"sql">> \o Kinds(s, i + 1, "sql")
    ELSE IF mode = "line"
    THEN IF s[i] = "\n" THEN <<"sql">> \o Kinds(s, i + 1, "sql")
         ELSE <<"com">> \o Kinds(s, i + 1, "line")
    ELSE <<"str">> \o Kinds(s, i + 1, IF s[i] = mode THEN "sql" ELSE mode)

KindsOf(s) == Kinds(s, 1, "sql")

\* the text has a semicolon outside comments and literals
HasSeparator(s) == \E i \in 1..Len(s) : KindsOf(s)[i] = "semi"

\* the pieces between such semicolons, the comments left out, each piece
\* stripped and the empty ones dropped
RECURSIVE Pieces(_, _, _, _, _)
Pieces(s, kinds, i, current, statements) ==
    IF i > Len(s) THEN IF Strip(current) # <<>> THEN Append(statements, Strip(current))
                       ELSE statements
    ELSE IF kinds[i] = "semi"
    THEN Pieces(s, kinds, i + 1, <<>>,
                IF Strip(current) # <<>> THEN Append(statements, Strip(current))
                ELSE statements)
    ELSE IF kinds[i] = "com" THEN Pieces(s, kinds, i + 1, current, statements)
    ELSE Pieces(s, kinds, i + 1, Append(current, s[i]), statements)

StatementsOf(s) == Pieces(s, KindsOf(s), 1, <<>>, <<>>)

\* the text holds a line-comment marker or a block comment
HasComment(s) ==
    \/ \E i \in 1..(Len(s) - 1) : s[i] = "-" /\ s[i + 1] = "-"
    \/ \E i \in 1..(Len(s) - 1) : /\ s[i] = "/" /\ s[i + 1] = "*"
                                  /\ \E j \in (i + 2)..(Len(s) - 1) : s[j] = "*" /\ s[j + 1] = "/"

\* C26 as stated: a SQL text without a semicolon outside comments and
\* literals yields exactly one statement, the text stripped.
C26_OneStatementIsTrimmedInput ==
    (call.fn = "split" /\ ~HasSeparator(call.sql)) => call.statements = <<Strip(call.sql)>>

\* C26: a SQL text without a comment and without a semicolon outside
\* literals yields the text stripped as its only statement, and no
\* statement when the text is blank.
C26_OneStatementWithoutComments ==
    (call.fn = "split" /\ ~HasSeparator(call.sql) /\ ~HasComment(call.sql)) =>
        call.statements = IF Strip(call.sql) = <<>> THEN <<>> ELSE <<Strip(call.sql)>>

\* C26 witness: a text with a semicolon in a literal and whitespace around
\* it was returned stripped
C26_Witness ==
    /\ call.fn = "split" /\ call.sql = <<" ", "'", ";", "'">>
    /\ call.statements = <<<<"'", ";", "'">>>>

\* C27: the statements are the pieces between the semicolons outside
\* literals and comments: a semicolon in a single- or double-quoted literal,
\* in a block comment or after a line-comment marker starts no statement,
\* and a comment marker inside a literal is text of the literal.
C27_SplitsOutsideLiteralsAndComments ==
    call.fn = "split" => call.statements = StatementsOf(call.sql)

\* C28: a SQL text with a single FROM clause that names db.sch.tbl, the
\* identifiers of any length, yields exactly the tuple (db, sch, tbl) and
\* no partial or bare tuple; a single bare name tbl yields exactly (None,
\* None, tbl).
C28_OneReferenceOneTuple ==
    call.fn = "extract" =>
       \A kw \in RefKeywords :
          /\ \A d \in Ids, x \in Ids, t \in Ids :
                call.sql = RefText(kw, <<d, x, t>>) => call.tables = <<<<d, x, t>>>>
          /\ \A t \in Ids :
                call.sql = RefText(kw, <<t>>) => call.tables = <<<<NoName, NoName, t>>>>

\* C29: valid is true only if every table extracted from the SQL was found
\* to exist and to have at least one row; a table whose check set an error
\* or left the row count unknown makes valid false and has an issue.
C29_ValidOnlyWhenConfirmed ==
    (preflight_ret.op = "preflight" /\ preflight_ret.status = 200) =>
       \A i \in 1..Len(preflight_ret.checks) :
          LET check == preflight_ret.checks[i] IN
          /\ preflight_ret.valid => check.exists /\ check.row_count >= 1
          /\ (check.error \/ check.row_count = NoCount) =>
                /\ ~preflight_ret.valid
                /\ \E k \in 1..Len(preflight_ret.issues) :
                      preflight_ret.issues[k].fqn = check.fqn

\* the one-table queries and the parts of their table reference
OneTable == { <<<<"t", "b", "l">>>>, <<<<"s">>, <<"t", "b", "l">>>>,
              <<<<"d">>, <<"s">>, <<"t", "b", "l">>>>, <<<<"t">>>>, <<<<"s">>, <<"t">>>> }

\* C30: when preflight has a replacement for the missing or empty table of
\* a query, the suggested query is the SQL with the table reference
\* replaced by the qualified name of the candidate, whether the reference
\* is bare, two-part or three-part, and the rest of the text as it was.
C30_SuggestedQueryReplacesReference ==
    (preflight_ret.op = "preflight" /\ preflight_ret.replacements # <<>>) =>
       \A parts \in OneTable, kw \in RefKeywords \cup {<<"f", "r", "o", "m">>} :
          preflight_ret.sql = RefText(kw, parts) =>
             preflight_ret.suggested_query =
                <<"*", " ">> \o kw \o <<" ">> \o preflight_ret.replacements[1][2]

\* the name holds a statement terminator or opens a comment
Unsafe(name) == \E p \in {<<";">>, <<"-", "-">>, <<"/", "*">>} : Contains(name, p)

\* C31: every implementation of the identifier layer returns a safe
\* bareword unchanged, fails for a name that holds a statement terminator
\* or opens a comment, and wraps any other name in double quotes with each
\* double quote inside it doubled.
C31_QuoteContract ==
    call.fn \in QuoteFns =>
       IF MatchesPart(call.name) THEN ~call.raised /\ call.text = call.name
       ELSE IF Unsafe(call.name) THEN call.raised
       ELSE ~call.raised /\ call.text = Wrapped(call.name)

\* C32: cancel_query of a RUNNING query sets it CANCELLED and answers
\* success whatever the remote cancel does: it succeeds, it fails, or it is
\* not attempted because no warehouse query id was captured or there is no
\* connection.
C32_CancelIsLocal ==
    [][\A q \in QIds, ro \in RemoteOutcomes :
          (/\ cancel_query(q, ro)
           /\ q \in DOMAIN query_results
           /\ query_results[q].status = RUNNING) =>
             /\ cancel_ret' = "ok"
             /\ query_results'[q].status = CANCELLED]_vars

\* C32 witness: one query was cancelled without a warehouse query id,
\* another with one, and a remote cancel has cost the connection
C32_Witness ==
    /\ cancel_ret = "ok"
    /\ ~connection
    /\ \E q \in DOMAIN query_results :
          query_results[q].status = CANCELLED /\ query_results[q].snowflake_query_id = None
    /\ \E q \in DOMAIN query_results :
          query_results[q].status = CANCELLED /\ query_results[q].snowflake_query_id # None

\* the results a step takes out of the store, and those of them whose
\* completion is older than the TTL at the time of the step
Evicted == DOMAIN query_results \ DOMAIN query_results'
PastTtl(q) ==
    /\ query_results[q].completed_at # NoTime
    /\ query_results[q].completed_at < now - RESULT_TTL_HOURS

\* C33: an eviction never removes a RUNNING result; what it removes is not
\* newer than any terminal result it keeps; and when it removes results
\* for the cap, it stops at the cap, or removes every terminal result when
\* there are too few of them.
C33_EvictsOldestTerminalToCap ==
    [][\A q \in Evicted :
          /\ query_results[q].status # RUNNING
          /\ \A p \in DOMAIN query_results' :
                query_results[p].status # RUNNING =>
                   query_results[q].completed_at <= query_results[p].completed_at
          /\ ~PastTtl(q) =>
                \/ Cardinality(DOMAIN query_results') = MAX_QUERY_RESULTS
                \/ /\ Cardinality(DOMAIN query_results') > MAX_QUERY_RESULTS
                   /\ \A p \in DOMAIN query_results' : query_results[p].status = RUNNING]_vars

\* C33 witness: with nothing older than the TTL, the first result was
\* evicted for the cap and the second, completed later, was kept
C33_Witness ==
    /\ now = 1
    /\ 1 \notin DOMAIN query_results
    /\ 2 \in DOMAIN query_results
    /\ query_results[2].status \in Terminal
    /\ query_results[2].completed_at = 1
    /\ \E t \in Threads : pc[t] = "store"

\* C34: the eviction run of an execute removes every terminal result whose
\* completion is older than the TTL, however many results are stored.
C34_ExpiredResultsEvicted ==
    [][(\E t \in Threads : pc[t] \in Outside /\ pc'[t] = "store") =>
          \A q \in DOMAIN query_results :
             (query_results[q].status \in Terminal /\ PastTtl(q)) =>
                q \notin DOMAIN query_results']_vars

\* the forms of a name that the identifier layer hands out
SafeForms(name) == {Quoted(fn, name).text : fn \in {f \in QuoteFns : ~Quoted(f, name).raised}}

\* the database that stands in the statements of a call
NamedDatabase == IF Given(call.name) \/ call.fn \in {"use", "show_schemas"}
                 THEN call.name ELSE FIELD_METADATA

\* the statements of a call when every name in them is a form handed out
\* by the identifier layer
SafeStatements ==
    CASE call.fn = "use" ->
           {<<<<"USE DATABASE ">> \o d>> : d \in SafeForms(NamedDatabase)}
      [] call.fn = "show_schemas" ->
           {<<<<"SHOW SCHEMAS IN DATABASE ">> \o d>> : d \in SafeForms(NamedDatabase)}
      [] call.fn = "check" ->
           { << <<"DESCRIBE TABLE ">> \o d \o <<".">> \o s \o <<".">> \o t,
                <<"SELECT COUNT(*) FROM ">> \o d \o <<".">> \o s \o <<".">> \o t
                   \o <<" LIMIT 1">> >> :
               d \in SafeForms(NamedDatabase), s \in SafeForms(PUBLIC),
               t \in SafeForms(CheckedTable) }
      [] call.fn = "show_tables" ->
           { <<<<"SHOW TABLES IN ">> \o d \o <<".">> \o s>> :
               d \in SafeForms(NamedDatabase), s \in SafeForms(PUBLIC) }
      [] OTHER -> {call.statements}

\* C35: every statement the system generates (USE, SHOW, DESCRIBE, COUNT)
\* holds the database, schema and table names only in a form that the
\* identifier layer returned for them; a name the layer rejects is in no
\* statement.
C35_NamesPassTheLayer ==
    (call.fn \in {"use", "show_schemas", "check", "show_tables"} /\ call.statements # <<>>) =>
       call.statements \in SafeStatements

\* C36: in the router every stored entry of every session is SUCCESS or
\* FAILED, so the cancel endpoint never answers 200: with a session it
\* answers 404 or 400 (without one, 401).
C36_RouterStoresOnlyFinished ==
    /\ \A h \in Handles : \A q \in DOMAIN session_results[h] :
          session_results[h][q].status \in {SUCCESS, FAILED}
    /\ resp.op = "cancel" => resp.code \in {401, 404, 400}

\* C36 witness: a session holds a SUCCESS and a FAILED entry and a cancel
\* of one of them was answered 400
C36_Witness ==
    /\ resp.op = "cancel" /\ resp.code = 400
    /\ \E h \in Handles :
          /\ \E q \in DOMAIN session_results[h] : session_results[h][q].status = SUCCESS
          /\ \E q \in DOMAIN session_results[h] : session_results[h][q].status = FAILED

\* C37: two executes of one session, in either order and the first two of
\* the session included, leave both query ids in the session's results: a
\* step of a live session loses no stored id, and an execute that answers
\* with a query id has stored it.
C37_NoStoredResultLost ==
    [][\A h \in Handles :
          session_state'[h] = "live" =>
             /\ DOMAIN session_results[h] \subseteq DOMAIN session_results'[h]
             /\ (/\ resp'.op = "execute" /\ resp'.code = 200
                 /\ last_request'.hdr = h
                 /\ router_next_qid' # router_next_qid) =>
                   resp'.qid \in DOMAIN session_results'[h]]_vars

\* C37 witness: the first two executes of a session were both stored
C37_Witness ==
    \E h \in Handles :
       /\ session_state[h] = "live"
       /\ DOMAIN session_results[h] = {1, 2}
       /\ resp.op = "execute" /\ resp.qid = 2 /\ last_request.hdr = h

\* the warehouse, database or schema of the request is one of the names
\* that hold DROP
NamesKeyword(req) ==
    req.warehouse \in KeywordNames \/ req.database \in KeywordNames
       \/ req.schema \in KeywordNames

\* C38: SnowflakeService._validate_identifier raises for a name that holds
\* DROP (DELETE, INSERT, UPDATE, TRUNCATE) in any case although each of its
\* parts is a safe bareword, and an execute_query with such a warehouse,
\* database or schema returns with its result FAILED and the user SQL not
\* sent.
C38_KeywordNamesRejected ==
    /\ \A name \in KeywordNames :
          /\ \A b \in PartBounds(name) : MatchesPart(SubSeq(name, b[1], b[2]))
          /\ service_validate_identifier(name).raised
    /\ \A t \in Threads :
          (pc[t] = "return" /\ NamesKeyword(cur[t].req)) =>
             /\ "SQL" \notin cur[t].calls
             /\ cur[t].qid \in DOMAIN query_results
             /\ query_results[cur[t].qid].status = FAILED

\* C38 witness: on a connected service the warehouse was used, then the
\* database name that holds DROP was rejected and the call returns
C38_Witness ==
    \E t \in Threads :
       /\ pc[t] = "return"
       /\ cur[t].req.database \in KeywordNames
       /\ cur[t].calls = {"USE WAREHOUSE"}
       /\ cur[t].err = InvalidIdentifierMsg(cur[t].req.database)
       /\ query_results[cur[t].qid].status = FAILED

\* C39: a listing that the warehouse answers with the empty list is written
\* to the cache, and a later read without refresh of the same scope and key
\* does not serve it: the read consults the cache and queries the warehouse
\* again.
C39_EmptyListNeverServed ==
    [][LET c == meta_ret'.op
           key == KeyOf(c, meta_ret'.scope, meta_ret'.args)
       IN  (meta_ret' # meta_ret /\ c \in ListEndpoints /\ meta_ret'.found) =>
              /\ (meta_ret'.queried /\ meta_ret'.error = None /\ meta_ret'.body = <<>>) =>
                    /\ Live(cache'[c], key, cache_time')
                    /\ cache'[c][key].data.list = <<>>
              /\ (/\ ~meta_ret'.refresh
                  /\ Live(cache[c], key, cache_time)
                  /\ cache[c][key].data.list = <<>>) =>
                    meta_ret'.consulted /\ meta_ret'.queried]_vars

\* C39 witness: an empty list is cached and live, and a read without
\* refresh of its scope and key has gone to the warehouse, which failed
C39_Witness ==
    /\ meta_ret.op \in ListEndpoints /\ meta_ret.found
    /\ ~meta_ret.refresh /\ meta_ret.consulted /\ meta_ret.queried
    /\ meta_ret.error # None
    /\ LET key == KeyOf(meta_ret.op, meta_ret.scope, meta_ret.args)
       IN  /\ Live(cache[meta_ret.op], key, cache_time)
           /\ cache[meta_ret.op][key].data.list = <<>>

\* the key of the call that result_ret records
KeyOfCall(ret) == query_make_key(ret.sql, ret.database, ret.schema)

\* C40: a set that is refused because the result is oversize leaves the
\* entry already cached under its key in place, and a get for that SQL and
\* context that follows returns that older entry.
C40_RefusedSetKeepsOldEntry ==
    [][/\ (/\ result_ret'.op = "set" /\ result_ret'.result.size > MaxResultBytes
           /\ KeyOfCall(result_ret') \in DOMAIN result_cache.entries) =>
             /\ KeyOfCall(result_ret') \in DOMAIN result_cache'.entries
             /\ result_cache'.entries[KeyOfCall(result_ret')]
                   = result_cache.entries[KeyOfCall(result_ret')]
       /\ (/\ result_ret.op = "set" /\ result_ret.result.size > MaxResultBytes
           /\ KeyOfCall(result_ret) \in DOMAIN result_cache.entries
           /\ result_ret'.op = "get"
           /\ KeyOfCall(result_ret') = KeyOfCall(result_ret)) =>
             /\ result_ret'.hit
             /\ result_ret'.result = result_cache.entries[KeyOfCall(result_ret)]
             /\ result_ret'.result.size <= MaxResultBytes]_vars

\* C40 witness: the result of exactly the limit is cached, an oversize
\* result for its key was refused, and a get can follow
C40_Witness ==
    /\ result_ret.op = "set" /\ result_ret.result.rows = <<3>>
    /\ KeyOfCall(result_ret) \in DOMAIN result_cache.entries
    /\ result_cache.entries[KeyOfCall(result_ret)].rows = <<2>>
    /\ result_cache.hits + result_cache.misses < MaxLookups

=============================================================================
